---------------------------- MODULE Spec2Model ----------------------------
(***************************************************************************)
(* Telecom dashboard: the record store, the filter state and the derived   *)
(* metrics of the user dashboard (DataProcessor, DashboardController,      *)
(* TableManager, ChartManager, MapManager) and of the admin dashboard      *)
(* (TelecomDataService, AdminDashboardController), with the context the    *)
(* InsightsManager receives.                                               *)
(*                                                                         *)
(* Numbers are integers in units of 0.01 (4500 is 45.00), so toFixed(2) is *)
(* a rounding to the nearest integer.  A JavaScript value is a record      *)
(* [t, n, d]: t = "num" is the rational n/d, "undef" an absent field,      *)
(* "nan" NaN, "inf" an infinity, "null" null.                              *)
(***************************************************************************)
EXTENDS Integers, Sequences, FiniteSets, TLC

VARIABLES
    role,           \* InsightsManager.detectRole: the page that is open
    pc,             \* position of initialize() / init(): loading, ready, failed
    loadResult,     \* how the fetch of data.json ended: pending, ok, failed
    rawData,        \* DataProcessor.rawData
    filteredData,   \* DataProcessor.filteredData
    filters,        \* DataProcessor.filters
    dropdown,       \* DashboardController.filterElements: options and value
    kpiCards,       \* what the KPI cards of the open page show
    tableData,      \* TableManager.tableData
    currentSort,    \* TableManager.currentSort
    svcRawData,     \* TelecomDataService.rawData
    isLoaded,       \* TelecomDataService.isLoaded
    adminFilters,   \* AdminDashboardController.filters
    cityOptions,    \* options of the admin cityFilter select
    currentFilters, \* InsightsManager.currentFilters
    currentMetrics, \* InsightsManager.currentMetrics
    insights,       \* InsightsManager.insights: the loaded templates, or null
    rendered,       \* what the insights container shows
    shownFor,       \* per view, the filtered records it was last drawn from
    coreCalls,      \* which core computations have been invoked so far
    lastEvent,      \* the handler that ran last, with its input
    localStorage,   \* window.localStorage: the keys that are set, with values
    location        \* window.location: the page that is open

vars == <<role, pc, loadResult, rawData, filteredData, filters, dropdown,
          kpiCards, tableData, currentSort, svcRawData, isLoaded, adminFilters,
          cityOptions, currentFilters, currentMetrics, insights, rendered,
          shownFor, coreCalls, lastEvent, localStorage, location>>

-----------------------------------------------------------------------------
(* JavaScript values and arithmetic *)

Num(x) == [t |-> "num", n |-> x, d |-> 1]
Undef == [t |-> "undef", n |-> 0, d |-> 1]
NaN == [t |-> "nan", n |-> 0, d |-> 1]
Infinity == [t |-> "inf", n |-> 0, d |-> 1]
Null == [t |-> "null", n |-> 0, d |-> 1]

IsNum(v) == v.t = "num"

\* a + b on an accumulated number and a record field
JsAdd(a, b) ==
    IF IsNum(a) /\ IsNum(b) /\ a.d = 1 /\ b.d = 1 THEN Num(a.n + b.n) ELSE NaN

\* v || 0
OrZero(v) == IF IsNum(v) /\ v.n # 0 THEN v ELSE Num(0)

\* sum / count, count an integer >= 0
JsDiv(sum, count) ==
    IF ~IsNum(sum) THEN NaN
    ELSE IF count = 0 THEN (IF sum.n = 0 THEN NaN ELSE Infinity)
    ELSE [t |-> "num", n |-> sum.n, d |-> count]

\* a > b on numbers; false when either is NaN
JsGreater(a, b) == IsNum(a) /\ IsNum(b) /\ a.n * b.d > b.n * a.d

\* the nearest integer to n/d, halves away from zero (d > 0)
RoundDiv(n, d) ==
    IF n >= 0 THEN (2 * n + d) \div (2 * d) ELSE -((2 * (-n) + d) \div (2 * d))

\* x.toFixed(2): a string, "NaN" for NaN; here the value the string reads as
ToFixed2(x) == IF IsNum(x) THEN Num(RoundDiv(x.n, x.d)) ELSE x


-----------------------------------------------------------------------------
(* Records of data.json.  The file is not part of the sources; the sample   *)
(* records below have the fields the code reads.                            *)

MaxRecords == 2

Rec(st, ci, ar, op, nt, yr, mo, hr, pk, dl, ul, la, sc, lat, lng) ==
    [state |-> st, city |-> ci, area |-> ar, operator |-> op,
     network_type |-> nt, year |-> yr, month |-> mo, hour |-> hr,
     is_peak_hour |-> pk, download_mbps |-> dl, upload_mbps |-> ul,
     latency_ms |-> la, confidence_score |-> sc,
     latitude |-> lat, longitude |-> lng]

SampleFile ==
    << Rec("KA", "Blr", "Indiranagar", "Airtel", "4G", 2022, 1, 9, 1,
           Num(5000), Num(1000), Num(4000), Num(50), Num(1297), Num(7764)),
       Rec("KA", "Blr", "Indiranagar", "Jio", "4G", 2022, 1, 9, 1,
           Num(5000), Num(1000), Num(4000), Num(50), Num(1297), Num(7764)),
       Rec("KA", "Blr", "Koramangala", "JIO", "5G", 2023, 1, 20, 0,
           Num(15000), Num(4500), Num(2000), Num(90), Num(1293), Num(7762)),
       Rec("KA", "Mys", "Gokulam", "Airtel", "4G", 2022, 2, 9, 0,
           Undef, Num(2000), Num(6000), Num(0), Num(1232), Num(7663)),
       Rec("TN", "Chn", "Adyar", "Airtel", "3G", 2023, 1, 20, 1,
           Num(8000), Num(3000), Undef, Num(70), Num(1300), Num(8025)),
       Rec("TN", "Chn", "Adyar", "Jio", "5G", 2022, 1, 9, 1,
           Num(2000), Undef, Num(7000), Undef, Num(1300), Num(8025)) >>

RecordPool == { SampleFile[i] : i \in DOMAIN SampleFile }

Reverse(s) == [i \in DOMAIN s |-> s[Len(s) + 1 - i]]

\* what response.json() may deliver: up to MaxRecords consecutive records of
\* the sample file, in file order or in the opposite order
Datasets ==
    LET runs == { SubSeq(SampleFile, w[1], w[1] + w[2] - 1) :
                    w \in { x \in (DOMAIN SampleFile) \X (0..MaxRecords) :
                              x[1] + x[2] - 1 <= Len(SampleFile) } }
    IN  runs \cup { Reverse(s) : s \in runs }

MaxRows == 4

\* a second sample file, for the table and the map: records of one city whose
\* areas and operators repeat
AreaFile ==
    << Rec("TN", "Chn", "Adyar", "Jio", "5G", 2022, 1, 9, 1,
           Num(2000), Undef, Num(7000), Undef, Num(1300), Num(8025)),
       Rec("TN", "Chn", "Adyar", "Jio", "5G", 2023, 1, 20, 0,
           Num(6000), Num(2000), Num(3000), Num(90), Num(1300), Num(8025)),
       Rec("TN", "Chn", "Adyar", "Airtel", "4G", 2023, 1, 20, 0,
           Num(5000), Num(1500), Num(5000), Num(30), Num(1300), Num(8025)),
       Rec("TN", "Chn", "Anna_Nagar", "Jio", "4G", 2023, 1, 9, 1,
           Num(7000), Num(2500), Num(3500), Num(60), Num(1308), Num(8021)),
       Rec("TN", "Chn", "Anna", "Nagar_Jio", "4G", 2023, 1, 9, 1,
           Num(1000), Num(500), Num(9000), Num(20), Num(1309), Num(8022)),
       Rec("TN", "Chn", "Anna", "Airtel", "5G", 2023, 1, 20, 0,
           Num(20000), Num(5000), Num(2500), Num(80), Num(1309), Num(8022)) >>

\* up to MaxRows consecutive records of the second file, in either order
AreaDatasets ==
    LET runs == { SubSeq(AreaFile, w[1], w[1] + w[2] - 1) :
                    w \in { x \in (DOMAIN AreaFile) \X (0..MaxRows) :
                              x[1] + x[2] - 1 <= Len(AreaFile) } }
    IN  runs \cup { Reverse(s) : s \in runs }

\* every string of the sample records, in the order Array.prototype.sort gives
\* (UTF-16 code units)
NameOrder ==
    << "3G", "4G", "5G", "AIRTEL", "Adyar", "Airtel", "Anna", "Anna_Nagar",
       "Blr", "Chn", "Gokulam", "Indiranagar", "JIO", "Jio", "KA",
       "Koramangala", "Mys", "Nagar_Jio", "TN" >>

\* String.prototype.toUpperCase on the operator names
ToUpperCase(s) ==
    CASE s = "Jio" -> "JIO"
      [] s = "JIO" -> "JIO"
      [] s = "Airtel" -> "AIRTEL"
      [] OTHER -> s

Range(s) == { s[i] : i \in DOMAIN s }

\* values.sort() on an array of distinct strings
SortNames(S) == SelectSeq(NameOrder, LAMBDA x : x \in S)

\* the elements of a sequence, each once, in first-seen order ([...new Set(a)],
\* Object.keys of an object filled in that order)
RECURSIVE Distinct(_)
Distinct(s) ==
    IF s = <<>> THEN <<>>
    ELSE LET init == Distinct(SubSeq(s, 1, Len(s) - 1))
             x == s[Len(s)]
         IN  IF x \in Range(init) THEN init ELSE Append(init, x)

\* array.reduce(f, acc) and array.forEach over an accumulator
RECURSIVE Reduce(_, _, _)
Reduce(F(_, _), acc, s) ==
    IF s = <<>> THEN acc ELSE Reduce(F, F(acc, Head(s)), Tail(s))

\* the position of the entry with the given key, 0 when there is none
KeyIndex(entries, k) ==
    IF \E i \in DOMAIN entries : entries[i].key = k
    THEN CHOOSE i \in DOMAIN entries : entries[i].key = k
    ELSE 0

\* obj[k] = obj[k] || { total: 0, count: 0 }; obj[k].total += v; obj[k].count += 1
\* on an object kept as its entries in insertion order
GroupAdd(acc, k, v) ==
    LET i == KeyIndex(acc, k)
    IN  IF i = 0
        THEN Append(acc, [key |-> k, total |-> JsAdd(Num(0), v), count |-> 1])
        ELSE [acc EXCEPT ![i].total = JsAdd(@, v), ![i].count = @ + 1]

-----------------------------------------------------------------------------
(* DataProcessor *)

AllFilters ==
    [state |-> "All", city |-> "All", area |-> "All", network |-> "All",
     operator |-> "All"]

getScoreLabel(score) ==
    IF IsNum(score) /\ score.n * 1 >= 50 * score.d THEN "Good" ELSE "Poor"

\* the unique values read from the filtered records
getUniqueValuesOfFiltered(raw, field) ==
    SortNames({ r[field] : r \in Range(filteredData) })

getUniqueValues(raw, field) == SortNames({ r[field] : r \in Range(raw) })

\* FilterTest without its test of the area
FilterTestWithoutArea(f, record) ==
    IF f.state # "All" /\ record.state # f.state THEN FALSE
    ELSE IF f.city # "All" /\ record.city # f.city THEN FALSE
    ELSE IF f.network # "All" /\ record.network_type # f.network THEN FALSE
    ELSE IF f.operator # "All" /\ record.operator # f.operator THEN FALSE
    ELSE TRUE

\* the callback of rawData.filter in applyFilters
FilterTest(f, record) ==
    IF f.state # "All" /\ record.state # f.state THEN FALSE
    ELSE IF f.city # "All" /\ record.city # f.city THEN FALSE
    ELSE IF f.area # "All" /\ record.area # f.area THEN FALSE
    ELSE IF f.network # "All" /\ record.network_type # f.network THEN FALSE
    ELSE IF f.operator # "All" /\ record.operator # f.operator THEN FALSE
    ELSE TRUE

applyFilters(raw, f) == SelectSeq(raw, LAMBDA record : FilterTest(f, record))

\* updateFilter where a state leaves the area as it is
updateFilterKeepingArea(f, filterName, value) ==
    LET g == [f EXCEPT ![filterName] = value]
    IN  IF filterName = "state" THEN [g EXCEPT !.city = "All"]
        ELSE IF filterName = "city" THEN [g EXCEPT !.area = "All"]
        ELSE g

\* the filters after updateFilter(filterName, value)
updateFilter(f, filterName, value) ==
    LET g == [f EXCEPT ![filterName] = value]
    IN  IF filterName = "state" THEN [g EXCEPT !.city = "All", !.area = "All"]
        ELSE IF filterName = "city" THEN [g EXCEPT !.area = "All"]
        ELSE g

getCitiesForState(raw, state) ==
    IF state = "All" THEN getUniqueValues(raw, "city")
    ELSE SortNames({ r.city : r \in { x \in Range(raw) : x.state = state } })

getAreasForCity(raw, city) ==
    IF city = "All" THEN getUniqueValues(raw, "area")
    ELSE SortNames({ r.area : r \in { x \in Range(raw) : x.city = city } })

\* operatorScores of calculateKPIs: one entry per upper-cased operator name,
\* in first-seen order
OperatorScoresStep(acc, r) ==
    GroupAdd(acc, ToUpperCase(r.operator), OrZero(r.confidence_score))

OperatorScores(data) == Reduce(OperatorScoresStep, <<>>, data)

\* BestOperatorStep with >= for >: the last of the greatest wins
BestOperatorStepLastWins(best, e) ==
    LET avgOpScore == JsDiv(e.total, e.count)
    IN  IF ~JsGreater(best.bestScore, avgOpScore) /\ JsGreater(avgOpScore, Num(0))
        THEN [bestOperator |-> e.key, bestScore |-> avgOpScore]
        ELSE best

\* the loop of calculateKPIs over Object.entries(operatorScores)
BestOperatorStep(best, e) ==
    LET avgOpScore == JsDiv(e.total, e.count)
    IN  IF JsGreater(avgOpScore, best.bestScore)
        THEN [bestOperator |-> e.key, bestScore |-> avgOpScore]
        ELSE best

\* BestOperator with bestScore starting below 0
BestOperatorFromBelowZero(entries) ==
    Reduce(BestOperatorStep, [bestOperator |-> "N/A", bestScore |-> Num(-1)],
           entries).bestOperator

BestOperator(entries) ==
    Reduce(BestOperatorStep, [bestOperator |-> "N/A", bestScore |-> Num(0)],
           entries).bestOperator

SumDownload(sum, r) == JsAdd(sum, r.download_mbps)
SumUpload(sum, r) == JsAdd(sum, r.upload_mbps)
SumScore(sum, r) == JsAdd(sum, OrZero(r.confidence_score))

SumLatency(sum, r) == JsAdd(sum, r.latency_ms)

\* a snapshot that also carries the mean latency of the records
calculateKPIsWithLatency(data) ==
    IF Len(data) = 0
    THEN [bestOperator |-> "N/A", avgDownload |-> Num(0), avgUpload |-> Num(0),
          avgScore |-> Num(0), avgLatency |-> Num(0)]
    ELSE [bestOperator |-> BestOperator(OperatorScores(data)),
          avgDownload |->
              ToFixed2(JsDiv(Reduce(SumDownload, Num(0), data), Len(data))),
          avgUpload |->
              ToFixed2(JsDiv(Reduce(SumUpload, Num(0), data), Len(data))),
          avgScore |->
              ToFixed2(JsDiv(Reduce(SumScore, Num(0), data), Len(data))),
          avgLatency |->
              ToFixed2(JsDiv(Reduce(SumLatency, Num(0), data), Len(data)))]

calculateKPIs(data) ==
    IF Len(data) = 0
    THEN [bestOperator |-> "N/A", avgDownload |-> Num(0), avgUpload |-> Num(0),
          avgScore |-> Num(0)]
    ELSE [bestOperator |-> BestOperator(OperatorScores(data)),
          avgDownload |->
              ToFixed2(JsDiv(Reduce(SumDownload, Num(0), data), Len(data))),
          avgUpload |->
              ToFixed2(JsDiv(Reduce(SumUpload, Num(0), data), Len(data))),
          avgScore |->
              ToFixed2(JsDiv(Reduce(SumScore, Num(0), data), Len(data)))]


\* the value a chart draws for one cell: the bucket's average, 0 without a bucket
CellAverage(entries, k) ==
    LET i == KeyIndex(entries, k)
    IN  IF i # 0 THEN ToFixed2(JsDiv(entries[i].total, entries[i].count))
        ELSE Num(0)

\* Array.from(allOperators).sort()
UpperOperators(data) == SortNames({ ToUpperCase(r.operator) : r \in Range(data) })

TopCities == 5

DownloadByCityOpStep(acc, r) ==
    GroupAdd(acc, <<r.city, ToUpperCase(r.operator)>>, r.download_mbps)

getDownloadSpeedByOperatorCity(data) ==
    LET entries == Reduce(DownloadByCityOpStep, <<>>, data)
        keys == Distinct([i \in DOMAIN data |-> data[i].city])
        cities == SubSeq(keys, 1, IF Len(keys) < TopCities THEN Len(keys)
                                  ELSE TopCities)
        operators == UpperOperators(data)
    IN  [labels |-> cities,
         datasets |->
             [o \in DOMAIN operators |->
                 [label |-> operators[o],
                  data |-> [c \in DOMAIN cities |->
                               CellAverage(entries, <<cities[c], operators[o]>>)]]]]

LatencyByPeakStep(acc, r) ==
    GroupAdd(acc,
             <<IF r.is_peak_hour = 1 THEN "Peak" ELSE "Non-Peak",
               ToUpperCase(r.operator)>>,
             r.latency_ms)

getLatencyByPeakHour(data) ==
    LET entries == Reduce(LatencyByPeakStep, <<>>, data)
        labels == <<"Non-Peak", "Peak">>
        operators == UpperOperators(data)
    IN  [labels |-> labels,
         datasets |->
             [o \in DOMAIN operators |->
                 [label |-> operators[o],
                  data |-> [l \in DOMAIN labels |->
                               CellAverage(entries, <<labels[l], operators[o]>>)]]]]

HoursPerDay == 24

HourlyDownloadStep(acc, r) ==
    GroupAdd(acc, <<r.hour, ToUpperCase(r.operator)>>, r.download_mbps)

getHourlyDownloadSpeed(data) ==
    LET entries == Reduce(HourlyDownloadStep, <<>>, data)
        hours == [i \in 1..HoursPerDay |-> i - 1]
        operators == UpperOperators(data)
    IN  [labels |-> hours,
         datasets |->
             [o \in DOMAIN operators |->
                 [label |-> operators[o],
                  data |-> [h \in DOMAIN hours |->
                               CellAverage(entries, <<hours[h], operators[o]>>)]]]]

\* a.sort(cmp) for a consistent cmp: stable; each element goes behind the last
\* one that does not compare greater
RECURSIVE SortBy(_, _)
SortBy(Cmp(_, _), s) ==
    IF Len(s) <= 1 THEN s
    ELSE LET init == SortBy(Cmp, SubSeq(s, 1, Len(s) - 1))
             x == s[Len(s)]
             keep == { i \in DOMAIN init :
                         \A j \in i..Len(init) : Cmp(init[j], x) > 0 }
             at == Len(init) - Cardinality(keep)
         IN  SubSeq(init, 1, at) \o <<x>> \o SubSeq(init, at + 1, Len(init))

\* parseFloat(a) - parseFloat(b) as the sort reads it: NaN counts as 0
NumDiff(a, b) == IF IsNum(a) /\ IsNum(b) THEN a.n - b.n ELSE 0

AreaWiseStep(acc, r) ==
    LET k == r.area \o "_" \o r.operator
        i == KeyIndex(acc, k)
        e == IF i = 0
             THEN [key |-> k, area |-> r.area, operator |-> r.operator,
                   downloadTotal |-> Num(0), uploadTotal |-> Num(0),
                   scoreTotal |-> Num(0), count |-> 0]
             ELSE acc[i]
        e2 == [e EXCEPT !.downloadTotal = JsAdd(@, r.download_mbps),
                        !.uploadTotal = JsAdd(@, r.upload_mbps),
                        !.scoreTotal = JsAdd(@, r.confidence_score),
                        !.count = @ + 1]
    IN  IF i = 0 THEN Append(acc, e2) ELSE [acc EXCEPT ![i] = e2]

ScoreDescending(a, b) == NumDiff(b.avgScore, a.avgScore)

getAreaWiseData(data) ==
    LET entries == Reduce(AreaWiseStep, <<>>, data)
        tableRows ==
            [i \in DOMAIN entries |->
                [area |-> entries[i].area,
                 operator |-> entries[i].operator,
                 avgDownload |->
                     ToFixed2(JsDiv(entries[i].downloadTotal, entries[i].count)),
                 avgUpload |->
                     ToFixed2(JsDiv(entries[i].uploadTotal, entries[i].count)),
                 avgScore |->
                     ToFixed2(JsDiv(entries[i].scoreTotal, entries[i].count))]]
    IN  SortBy(ScoreDescending, tableRows)

\* Array.prototype.join(', ')
RECURSIVE Join(_)
Join(s) ==
    IF s = <<>> THEN ""
    ELSE IF Len(s) = 1 THEN s[1]
    ELSE s[1] \o ", " \o Join(Tail(s))

MapDataStep(acc, r) ==
    LET i == KeyIndex(acc, r.area)
        e == IF i = 0
             THEN [key |-> r.area, area |-> r.area, city |-> r.city,
                   state |-> r.state, lat |-> r.latitude, lng |-> r.longitude,
                   scoreTotal |-> Num(0), count |-> 0, operators |-> <<>>]
             ELSE acc[i]
        e2 == [e EXCEPT !.scoreTotal = JsAdd(@, r.confidence_score),
                        !.count = @ + 1,
                        !.operators = IF r.operator \in Range(@) THEN @
                                      ELSE Append(@, r.operator)]
    IN  IF i = 0 THEN Append(acc, e2) ELSE [acc EXCEPT ![i] = e2]

getMapData(data) ==
    LET entries == Reduce(MapDataStep, <<>>, data)
    IN  [i \in DOMAIN entries |->
            [area |-> entries[i].area, city |-> entries[i].city,
             state |-> entries[i].state, lat |-> entries[i].lat,
             lng |-> entries[i].lng, scoreTotal |-> entries[i].scoreTotal,
             count |-> entries[i].count,
             avgScore |-> ToFixed2(JsDiv(entries[i].scoreTotal, entries[i].count)),
             operators |-> Join(entries[i].operators)]]

-----------------------------------------------------------------------------
(* MapManager *)

\* areaOperators of updateMap: per area, per operator name as it is in the
\* record, the total and the count
AreaOperatorsStep(acc, record) ==
    LET i == KeyIndex(acc, record.area)
        e == IF i = 0 THEN [key |-> record.area, ops |-> <<>>] ELSE acc[i]
        e2 == [e EXCEPT
                 !.ops = GroupAdd(@, record.operator, record.confidence_score)]
    IN  IF i = 0 THEN Append(acc, e2) ELSE [acc EXCEPT ![i] = e2]

\* the inner loop of updateMap over the operators of one area
AreaBestStep(best, e) ==
    LET avg == JsDiv(e.total, e.count)
    IN  IF JsGreater(avg, best.bestScore)
        THEN [bestOp |-> e.key, bestScore |-> avg]
        ELSE best

\* bestOperators[area] || 'N/A' for an area of data
MapBestOperator(data, area) ==
    LET areaOperators == Reduce(AreaOperatorsStep, <<>>, data)
        i == KeyIndex(areaOperators, area)
        best == IF i = 0 THEN [bestOp |-> "", bestScore |-> Num(0)]
                ELSE Reduce(AreaBestStep, [bestOp |-> "", bestScore |-> Num(0)],
                            areaOperators[i].ops)
    IN  IF best.bestOp = "" THEN "N/A" ELSE best.bestOp

\* the markers updateMap adds: one per summary with a position
Markers(data) ==
    LET items == SelectSeq(getMapData(data),
                           LAMBDA item : IsNum(item.lat) /\ IsNum(item.lng))
    IN  [i \in DOMAIN items |->
            [area |-> items[i].area, city |-> items[i].city,
             state |-> items[i].state,
             label |-> getScoreLabel(items[i].avgScore),
             bestOp |-> MapBestOperator(data, items[i].area),
             operators |-> items[i].operators]]

-----------------------------------------------------------------------------
(* TableManager *)

\* String.prototype.localeCompare on the lower-cased names of the sample
\* records: the position of the name in the collation order
LocaleRank(s) ==
    CASE s \in {"Adyar"} -> 1
      [] s \in {"Airtel"} -> 2
      [] s \in {"Anna"} -> 3
      [] s \in {"Anna_Nagar"} -> 4
      [] s \in {"Gokulam"} -> 5
      [] s \in {"Indiranagar"} -> 6
      [] s \in {"Jio", "JIO"} -> 7
      [] s \in {"Koramangala"} -> 8
      [] s \in {"Nagar_Jio"} -> 9
      [] OTHER -> 10

\* the comparator of applySorting
\* a comparator that sorts every column in descending order
SortCompareIgnoringDirection(sort, a, b) ==
    LET multiplier == -1
    IN  CASE sort.column = "area" ->
                 multiplier * (LocaleRank(a.area) - LocaleRank(b.area))
          [] sort.column = "operator" ->
                 multiplier * (LocaleRank(a.operator) - LocaleRank(b.operator))
          [] sort.column = "download" ->
                 multiplier * NumDiff(a.avgDownload, b.avgDownload)
          [] sort.column = "upload" ->
                 multiplier * NumDiff(a.avgUpload, b.avgUpload)
          [] sort.column = "score" ->
                 multiplier * NumDiff(a.avgScore, b.avgScore)
          [] OTHER -> 0

SortCompare(sort, a, b) ==
    LET multiplier == IF sort.direction = "asc" THEN 1 ELSE -1
    IN  CASE sort.column = "area" ->
                 multiplier * (LocaleRank(a.area) - LocaleRank(b.area))
          [] sort.column = "operator" ->
                 multiplier * (LocaleRank(a.operator) - LocaleRank(b.operator))
          [] sort.column = "download" ->
                 multiplier * NumDiff(a.avgDownload, b.avgDownload)
          [] sort.column = "upload" ->
                 multiplier * NumDiff(a.avgUpload, b.avgUpload)
          [] sort.column = "score" ->
                 multiplier * NumDiff(a.avgScore, b.avgScore)
          [] OTHER -> 0

applySorting(sort, rows) == SortBy(LAMBDA a, b : SortCompare(sort, a, b), rows)

\* tableData after updateTable: the empty table returns before applySorting
updateTable(sort, data) ==
    LET rows == getAreaWiseData(data)
    IN  IF Len(rows) = 0 THEN rows ELSE applySorting(sort, rows)

\* parseFloat of a cell of the table: the number a toFixed(2) text reads as,
\* NaN for the text "NaN"
parseFloat(v) == IF IsNum(v) THEN v ELSE NaN

\* tableData.reduce((sum, row) => sum + parseFloat(row[column]), 0)
ColumnTotal(rows, column) ==
    Reduce(LAMBDA sum, row : JsAdd(sum, parseFloat(row[column])), Num(0), rows)

\* totals that leave the last row out of the sums
calculateTotalsSkippingLastRow(rows) ==
    IF Len(rows) = 0
    THEN [avgDownload |-> Num(0), avgUpload |-> Num(0), avgScore |-> Num(0)]
    ELSE LET init == SubSeq(rows, 1, Len(rows) - 1)
         IN  [avgDownload |->
                  ToFixed2(JsDiv(ColumnTotal(init, "avgDownload"), Len(rows))),
              avgUpload |->
                  ToFixed2(JsDiv(ColumnTotal(init, "avgUpload"), Len(rows))),
              avgScore |->
                  ToFixed2(JsDiv(ColumnTotal(init, "avgScore"), Len(rows)))]

calculateTotals(rows) ==
    IF Len(rows) = 0
    THEN [avgDownload |-> Num(0), avgUpload |-> Num(0), avgScore |-> Num(0)]
    ELSE [avgDownload |->
              ToFixed2(JsDiv(ColumnTotal(rows, "avgDownload"), Len(rows))),
          avgUpload |->
              ToFixed2(JsDiv(ColumnTotal(rows, "avgUpload"), Len(rows))),
          avgScore |->
              ToFixed2(JsDiv(ColumnTotal(rows, "avgScore"), Len(rows)))]

Digits == << "0", "1", "2", "3", "4", "5", "6", "7", "8", "9" >>

\* the decimal digits of a natural number
RECURSIVE NatText(_)
NatText(n) ==
    IF n < 10 THEN Digits[n + 1]
    ELSE NatText(n \div 10) \o Digits[(n % 10) + 1]

\* the text toFixed(2) gave for a cell of the table
Fixed2Text(v) ==
    CASE v.t = "num" ->
             LET a == IF v.n < 0 THEN -v.n ELSE v.n
             IN  (IF v.n < 0 THEN "-" ELSE "") \o NatText(a \div 100) \o "."
                     \o Digits[((a \div 10) % 10) + 1] \o Digits[(a % 10) + 1]
      [] v.t = "inf" -> "Infinity"
      [] OTHER -> "NaN"

CsvHeader ==
    "Area,Operator,Avg Download Speed,Avg Upload Speed,Final Network Score"

\* a line of the file with the score written before the upload speed
CsvRowScoreBeforeUpload(row) ==
    "\"" \o row.area \o "\",\"" \o row.operator \o "\","
        \o Fixed2Text(row.avgDownload) \o "," \o Fixed2Text(row.avgScore)
        \o "," \o Fixed2Text(row.avgUpload)

\* the line exportToCSV writes for a row, without the line feed that ends it
CsvRow(row) ==
    "\"" \o row.area \o "\",\"" \o row.operator \o "\","
        \o Fixed2Text(row.avgDownload) \o "," \o Fixed2Text(row.avgUpload)
        \o "," \o Fixed2Text(row.avgScore)

\* the lines of the file exportToCSV hands to the browser; no file, written
\* <<>>, when the table is empty
CsvText(rows) ==
    IF Len(rows) = 0 THEN <<>>
    ELSE <<CsvHeader>> \o [i \in DOMAIN rows |-> CsvRow(rows[i])]

-----------------------------------------------------------------------------
(* TelecomDataService *)

MaxMonth == 2

InitialAdminFilters ==
    [state |-> "All", city |-> "All", operator |-> "All", network_type |-> "All",
     years |-> <<>>, month_start |-> 1]

\* years.sort((a, b) => a - b) on distinct numbers
RECURSIVE Ascending(_)
Ascending(S) ==
    IF S = {} THEN <<>>
    ELSE LET m == CHOOSE x \in S : \A y \in S : x <= y
         IN  <<m>> \o Ascending(S \ {m})

getFilterOptions(raw) ==
    [states |-> SortNames({ r.state : r \in Range(raw) }),
     cities |-> SortNames({ r.city : r \in Range(raw) }),
     operators |-> SortNames({ r.operator : r \in Range(raw) }),
     networkTypes |-> SortNames({ r.network_type : r \in Range(raw) }),
     years |-> Ascending({ r.year : r \in { x \in Range(raw) : x.year # 0 } })]

\* the callback of rawData.filter in filterData
FilterDataTest(f, record) ==
    IF f.state # "" /\ f.state # "All" /\ record.state # f.state THEN FALSE
    ELSE IF f.city # "" /\ f.city # "All" /\ record.city # f.city THEN FALSE
    ELSE IF f.operator # "" /\ f.operator # "All"
            /\ record.operator # f.operator THEN FALSE
    ELSE IF f.network_type # "" /\ f.network_type # "All"
            /\ record.network_type # f.network_type THEN FALSE
    ELSE IF Len(f.years) > 0 /\ record.year \notin Range(f.years) THEN FALSE
    ELSE IF f.month_start # 0 /\ record.month # f.month_start THEN FALSE
    ELSE TRUE

filterData(raw, f) == SelectSeq(raw, LAMBDA record : FilterDataTest(f, record))

MetricsStep(acc, curr) ==
    [download |-> JsAdd(acc.download, OrZero(curr.download_mbps)),
     upload |-> JsAdd(acc.upload, OrZero(curr.upload_mbps)),
     latency |-> JsAdd(acc.latency, OrZero(curr.latency_ms)),
     networkScore |-> JsAdd(acc.networkScore, OrZero(curr.confidence_score))]

getAggregatedMetrics(data) ==
    IF Len(data) = 0 THEN Null
    ELSE LET total == Len(data)
             sums == Reduce(MetricsStep,
                            [download |-> Num(0), upload |-> Num(0),
                             latency |-> Num(0), networkScore |-> Num(0)],
                            data)
         IN  [avgDownload |-> ToFixed2(JsDiv(sums.download, total)),
              avgUpload |-> ToFixed2(JsDiv(sums.upload, total)),
              avgLatency |-> ToFixed2(JsDiv(sums.latency, total)),
              avgNetworkScore |-> ToFixed2(JsDiv(sums.networkScore, total)),
              totalRecords |-> total]

\* a { peakSum, peakCount, nonPeakSum, nonPeakCount } bucket of getChartData
PeakAdd(acc, k, pk, v) ==
    LET i == KeyIndex(acc, k)
        e == IF i = 0
             THEN [key |-> k, peakSum |-> Num(0), peakCount |-> 0,
                   nonPeakSum |-> Num(0), nonPeakCount |-> 0]
             ELSE acc[i]
        e2 == IF pk = 1
              THEN [e EXCEPT !.peakSum = JsAdd(@, v), !.peakCount = @ + 1]
              ELSE [e EXCEPT !.nonPeakSum = JsAdd(@, v), !.nonPeakCount = @ + 1]
    IN  IF i = 0 THEN Append(acc, e2) ELSE [acc EXCEPT ![i] = e2]

DownloadByOpPeakStep(acc, r) ==
    PeakAdd(acc, r.operator, r.is_peak_hour, r.download_mbps)

LatencyByYearPeakStep(acc, r) ==
    PeakAdd(acc, r.year, r.is_peak_hour, r.latency_ms)

LatencyByCityNetStep(acc, r) ==
    LET i == KeyIndex(acc, r.city)
        e == IF i = 0
             THEN [key |-> r.city, sum4G |-> Num(0), count4G |-> 0,
                   sum5G |-> Num(0), count5G |-> 0]
             ELSE acc[i]
        e2 == IF r.network_type = "4G"
              THEN [e EXCEPT !.sum4G = JsAdd(@, r.latency_ms), !.count4G = @ + 1]
              ELSE IF r.network_type = "5G"
              THEN [e EXCEPT !.sum5G = JsAdd(@, r.latency_ms), !.count5G = @ + 1]
              ELSE e
    IN  IF i = 0 THEN Append(acc, e2) ELSE [acc EXCEPT ![i] = e2]

\* CoverageGrowthStep with a third bucket for the other network types
CoverageGrowthStepCountingAll(acc, r) ==
    LET i == KeyIndex(acc, r.year)
        e == IF i = 0 THEN [key |-> r.year, n4G |-> 0, n5G |-> 0] ELSE acc[i]
        e2 == IF r.network_type = "5G" THEN [e EXCEPT !.n5G = @ + 1]
              ELSE [e EXCEPT !.n4G = @ + 1]
    IN  IF i = 0 THEN Append(acc, e2) ELSE [acc EXCEPT ![i] = e2]

CoverageGrowthStep(acc, r) ==
    LET i == KeyIndex(acc, r.year)
        e == IF i = 0 THEN [key |-> r.year, n4G |-> 0, n5G |-> 0] ELSE acc[i]
        e2 == IF r.network_type = "4G" THEN [e EXCEPT !.n4G = @ + 1]
              ELSE IF r.network_type = "5G" THEN [e EXCEPT !.n5G = @ + 1]
              ELSE e
    IN  IF i = 0 THEN Append(acc, e2) ELSE [acc EXCEPT ![i] = e2]

DownloadByYearOpStep(acc, r) ==
    GroupAdd(acc, <<r.year, r.operator>>, r.download_mbps)

ScoreByOpStep(acc, r) == GroupAdd(acc, r.operator, r.confidence_score)

\* Object.keys of an object whose keys are years: integer keys come in
\* ascending order whatever the insertion order
ByYear(entries) == SortBy(LAMBDA a, b : a.key - b.key, entries)

getChartData(data) ==
    [downloadByOpPeak |-> Reduce(DownloadByOpPeakStep, <<>>, data),
     latencyByCityNet |-> Reduce(LatencyByCityNetStep, <<>>, data),
     coverageGrowth |-> ByYear(Reduce(CoverageGrowthStep, <<>>, data)),
     downloadByYearOp |-> Reduce(DownloadByYearOpStep, <<>>, data),
     latencyByYearPeak |-> ByYear(Reduce(LatencyByYearPeakStep, <<>>, data)),
     scoreByOp |-> Reduce(ScoreByOpStep, <<>>, data)]

\* the cities of one state, sorted; <<>> for a state without records
getStateToCitiesMap(raw, state) ==
    SortNames({ r.city : r \in { x \in Range(raw) : x.state = state } })

-----------------------------------------------------------------------------
(* AdminDashboardController: the series its charts draw *)

\* GuardedAverage without the guard: sum / count
UnguardedAverage(sum, count) == JsDiv(sum, count)

\* count ? (sum / count) : 0
GuardedAverage(sum, count) == IF count # 0 THEN JsDiv(sum, count) ELSE Num(0)

renderDownloadOpChart(data) ==
    [labels |-> [i \in DOMAIN data |-> data[i].key],
     peakData |-> [i \in DOMAIN data |->
                      GuardedAverage(data[i].peakSum, data[i].peakCount)],
     nonPeakData |-> [i \in DOMAIN data |->
                         GuardedAverage(data[i].nonPeakSum, data[i].nonPeakCount)]]

renderLatencyCityChart(data) ==
    LET cities == SubSeq(data, 1, IF Len(data) < TopCities THEN Len(data)
                                  ELSE TopCities)
    IN  [labels |-> [i \in DOMAIN cities |-> cities[i].key],
         data4G |-> [i \in DOMAIN cities |->
                        GuardedAverage(cities[i].sum4G, cities[i].count4G)],
         data5G |-> [i \in DOMAIN cities |->
                        GuardedAverage(cities[i].sum5G, cities[i].count5G)]]

renderCoverageGrowthChart(data) ==
    [labels |-> [i \in DOMAIN data |-> data[i].key],
     data4G |-> [i \in DOMAIN data |-> data[i].n4G],
     data5G |-> [i \in DOMAIN data |-> data[i].n5G]]

\* item ? (item.sum / item.count) : 0
YearOpValue(data, y, op) ==
    LET i == KeyIndex(data, <<y, op>>)
    IN  IF i # 0 THEN JsDiv(data[i].total, data[i].count) ELSE Num(0)

renderDownloadYearChart(data) ==
    LET years == Ascending({ data[i].key[1] : i \in DOMAIN data })
        byYear == SortBy(LAMBDA a, b : a.key[1] - b.key[1], data)
        operators == Distinct([i \in DOMAIN byYear |-> byYear[i].key[2]])
    IN  [labels |-> years,
         datasets |->
             [o \in DOMAIN operators |->
                 [label |-> operators[o],
                  data |-> [y \in DOMAIN years |->
                               YearOpValue(data, years[y], operators[o])]]]]

renderLatencyYearChart(data) ==
    [labels |-> [i \in DOMAIN data |-> data[i].key],
     peakVals |-> [i \in DOMAIN data |->
                      GuardedAverage(data[i].peakSum, data[i].peakCount)],
     nonPeakVals |-> [i \in DOMAIN data |->
                         GuardedAverage(data[i].nonPeakSum, data[i].nonPeakCount)]]

renderScoreOpChart(data) ==
    [labels |-> [i \in DOMAIN data |-> data[i].key],
     values |-> [i \in DOMAIN data |->
                    GuardedAverage(data[i].total, data[i].count)]]

renderCharts(data) ==
    [chartDownloadOp |-> renderDownloadOpChart(data.downloadByOpPeak),
     chartLatencyCity |-> renderLatencyCityChart(data.latencyByCityNet),
     chartCoverageGrowth |-> renderCoverageGrowthChart(data.coverageGrowth),
     chartDownloadYear |-> renderDownloadYearChart(data.downloadByYearOp),
     chartLatencyYear |-> renderLatencyYearChart(data.latencyByYearPeak),
     chartScoreOp |-> renderScoreOpChart(data.scoreByOp)]

-----------------------------------------------------------------------------
(* The two pages *)

FilterNames == {"state", "city", "area", "network"}

NoCards == [placeholder |-> TRUE]

\* the insights container before renderInsights has written to it
NotRendered == [kind |-> "none", cards |-> <<>>]

\* {} as InsightsManager.currentFilters: every entry is absent
NoFilters == [state |-> "", city |-> ""]

Views == [kpis |-> <<>>, charts |-> <<>>, map |-> <<>>, table |-> <<>>,
          insights |-> <<>>]

-----------------------------------------------------------------------------
(* Authentication: localStorage, the login and signup forms, the guards *)

\* localStorage.setItem(key, value)
setItem(storage, key, value) ==
    [k \in DOMAIN storage \cup {key} |-> IF k = key THEN value ELSE storage[k]]

\* localStorage.removeItem(key)
removeItem(storage, key) == [k \in DOMAIN storage \ {key} |-> storage[k]]

\* localStorage.getItem(key) === value
ItemIs(storage, key, value) == key \in DOMAIN storage /\ storage[key] = value

NoStorage == [k \in {} |-> ""]

AdminEmail == "admin@gmail.com"

AdminPassword == "admin123"

\* the characters of the sample passwords
Characters(password) ==
    CASE password = "admin123" -> <<"a", "d", "m", "i", "n", "1", "2", "3">>
      [] password = "Pass@1" -> <<"P", "a", "s", "s", "@", "1">>
      [] password = "Pass1" -> <<"P", "a", "s", "s", "1">>
      [] password = "pass@1" -> <<"p", "a", "s", "s", "@", "1">>
      [] OTHER -> <<>>

UpperCase == {"P"}

SpecialCharacters == {"@"}

\* validatePassword: an upper-case letter, a digit and a special character
validatePassword(password) ==
    LET used == Range(Characters(password))
    IN  /\ used \cap UpperCase # {}
        /\ used \cap Range(Digits) # {}
        /\ used \cap SpecialCharacters # {}

Pages ==
    {"index.html", "login.html", "signup.html", "dashboards/user-dashboard.html",
     "dashboards/admin-dashboard.html"}

\* window.location.pathname.includes('dashboard.html')
isDashboard(page) ==
    page \in {"dashboards/user-dashboard.html", "dashboards/admin-dashboard.html"}

isAuthPage(page) == page \in {"login.html", "signup.html"}

isLoggedIn(storage) ==
    ItemIs(storage, "userLoggedIn", "true")
        \/ ItemIs(storage, "adminLoggedIn", "true")

\* the page that is open once the guards of DOMContentLoaded have run on
\* page, the page a guard redirects to being loaded in turn
AuthGuard(page, storage) ==
    IF isDashboard(page) /\ ~isLoggedIn(storage) THEN "login.html"
    ELSE IF isAuthPage(page) /\ isLoggedIn(storage)
    THEN IF ItemIs(storage, "adminLoggedIn", "true")
         THEN "dashboards/admin-dashboard.html"
         ELSE "dashboards/user-dashboard.html"
    ELSE page

\* the storage the admin branch of the login handler leaves
AdminLogin(storage, email) ==
    setItem(setItem(setItem(setItem(storage, "adminLoggedIn", "true"),
                            "userRole", "admin"),
                    "userName", "admin"),
            "userEmail", email)

\* the storage the registered-user branch of the login handler leaves
UserLogin(storage) ==
    setItem(setItem(setItem(setItem(storage, "userLoggedIn", "true"),
                            "userRole", "user"),
                    "userName", storage["registeredName"]),
            "userEmail", storage["registeredEmail"])

\* the storage the signup handler leaves
Register(storage, name, email, password) ==
    setItem(setItem(setItem(storage, "registeredName", name),
                    "registeredEmail", email),
            "registeredPassword", password)

\* the dashboard of a role and the storage of the login that led to it
DashboardOf(r) ==
    IF r = "admin" THEN "dashboards/admin-dashboard.html"
    ELSE "dashboards/user-dashboard.html"

SessionOf(r) ==
    IF r = "admin" THEN AdminLogin(NoStorage, AdminEmail)
    ELSE UserLogin(Register(NoStorage, "Asha", "asha@mail.in", "Pass@1"))

\* the dashboard state of a page whose scripts have just been constructed
PageInit ==
    /\ role \in {"user", "admin"}
    /\ pc = "loading"
    /\ loadResult = "pending"
    /\ rawData = <<>>
    /\ filteredData = <<>>
    /\ filters = AllFilters
    /\ dropdown = [d \in FilterNames |-> [options |-> {}, value |-> "All"]]
    /\ kpiCards = NoCards
    /\ tableData = <<>>
    /\ currentSort = [column |-> "score", direction |-> "desc"]
    /\ svcRawData = <<>>
    /\ isLoaded = FALSE
    /\ adminFilters = InitialAdminFilters
    /\ cityOptions = {}
    /\ currentFilters = NoFilters
    /\ currentMetrics = Null
    /\ insights = Null
    /\ rendered = NotRendered
    /\ shownFor = Views
    /\ coreCalls = {}
    /\ lastEvent = [kind |-> "none", value |-> "none"]

\* a dashboard page, opened by the login of its role
Init ==
    /\ PageInit
    /\ localStorage = SessionOf(role)
    /\ location = DashboardOf(role)

AdminVars == <<svcRawData, isLoaded, adminFilters, cityOptions>>

UserVars == <<rawData, filteredData, filters, dropdown, tableData, currentSort,
              lastEvent>>

\* the state of the dashboard scripts, which no handler of auth.js touches
DashboardVars ==
    <<role, pc, loadResult, rawData, filteredData, filters, dropdown, kpiCards,
      tableData, currentSort, svcRawData, isLoaded, adminFilters, cityOptions,
      currentFilters, currentMetrics, insights, rendered, shownFor, coreCalls>>

\* a page is opened by its address or by a link
Visit(page) ==
    /\ location' = AuthGuard(page, localStorage)
    /\ lastEvent' = [kind |-> "visit", value |-> page]
    /\ UNCHANGED localStorage
    /\ UNCHANGED DashboardVars

\* the submit handler of loginForm
LoginSubmit(email, password) ==
    /\ location = "login.html"
    /\ IF email = AdminEmail /\ password = AdminPassword
       THEN /\ localStorage' = AdminLogin(localStorage, email)
            /\ location' = AuthGuard("dashboards/admin-dashboard.html",
                                     AdminLogin(localStorage, email))
            /\ lastEvent' = [kind |-> "login", value |-> "admin"]
       ELSE IF ~validatePassword(password)
       THEN /\ lastEvent' = [kind |-> "login", value |-> "password alert"]
            /\ UNCHANGED <<localStorage, location>>
       ELSE IF /\ ItemIs(localStorage, "registeredEmail", email)
               /\ ItemIs(localStorage, "registeredPassword", password)
       THEN /\ localStorage' = UserLogin(localStorage)
            /\ location' = AuthGuard("dashboards/user-dashboard.html",
                                     UserLogin(localStorage))
            /\ lastEvent' = [kind |-> "login", value |-> "user"]
       ELSE /\ lastEvent' = [kind |-> "login", value |-> "invalid alert"]
            /\ UNCHANGED <<localStorage, location>>
    /\ UNCHANGED DashboardVars

\* the submit handler of signupForm
SignupSubmit(name, email, password) ==
    /\ location = "signup.html"
    /\ IF name = "" \/ email = "" \/ password = ""
       THEN /\ lastEvent' = [kind |-> "signup", value |-> "fields alert"]
            /\ UNCHANGED <<localStorage, location>>
       ELSE IF ~validatePassword(password)
       THEN /\ lastEvent' = [kind |-> "signup", value |-> "password alert"]
            /\ UNCHANGED <<localStorage, location>>
       ELSE /\ localStorage' = Register(localStorage, name, email, password)
            /\ location' =
                   AuthGuard("login.html",
                             Register(localStorage, name, email, password))
            /\ lastEvent' = [kind |-> "signup", value |-> "registered"]
    /\ UNCHANGED DashboardVars

\* auth.logout
AuthLogout ==
    /\ localStorage' =
           removeItem(removeItem(removeItem(removeItem(removeItem(
               localStorage, "userLoggedIn"), "adminLoggedIn"), "userRole"),
               "userName"), "userEmail")
    /\ location' = AuthGuard("index.html", localStorage')
    /\ lastEvent' = [kind |-> "logout", value |-> "auth.logout"]
    /\ UNCHANGED DashboardVars

\* DashboardController.logout, the logout button of the user dashboard
logout ==
    /\ location = "dashboards/user-dashboard.html"
    /\ localStorage' = removeItem(localStorage, "userLoggedIn")
    /\ location' = AuthGuard("index.html", localStorage')
    /\ lastEvent' = [kind |-> "logout", value |-> "DashboardController.logout"]
    /\ UNCHANGED DashboardVars

SampleEmails == {AdminEmail, "asha@mail.in"}

SamplePasswords == {AdminPassword, "Pass@1", "Pass1", "pass@1"}

SampleNames == {"", "Asha", "Ravi"}

\* the site from its home page, nobody logged in and nobody registered
AuthInit ==
    /\ PageInit
    /\ role = "user"
    /\ localStorage = NoStorage
    /\ location = "index.html"

AuthNext ==
    \/ \E page \in Pages : Visit(page)
    \/ \E email \in SampleEmails, password \in SamplePasswords :
          LoginSubmit(email, password)
    \/ \E name \in SampleNames, email \in SampleEmails,
          password \in SamplePasswords : SignupSubmit(name, email, password)
    \/ AuthLogout
    \/ logout

AuthSpec == AuthInit /\ [][AuthNext]_vars

-----------------------------------------------------------------------------
(* InsightsManager.  Speeds and latencies are in hundredths, as everywhere. *)

\* m[name], undefined when the metrics carry no such entry
MetricField(m, name) == IF name \in DOMAIN m THEN m[name] ELSE Undef

\* parseFloat(v) || fallback: the fallback replaces NaN and 0
ParseOr(v, fallback) == IF IsNum(v) /\ v.n # 0 THEN v.n ELSE fallback

\* const down = parseFloat(m.avgDownload) || 0
InsightDown(m) == ParseOr(MetricField(m, "avgDownload"), 0)

\* const up = parseFloat(m.avgUpload) || 0
InsightUp(m) == ParseOr(MetricField(m, "avgUpload"), 0)

\* const lat = parseFloat(m.avgLatency || m.avgLatencyMs) || 50; an entry
\* that is present is a toFixed text, which is truthy
InsightLatency(m) ==
    LET first == MetricField(m, "avgLatency")
        v == IF first # Undef THEN first ELSE MetricField(m, "avgLatencyMs")
    IN  ParseOr(v, 5000)

\* the stability rule with the bounds of "stable" included
OperatorTrendInclusive(down, up, lat) ==
    IF down >= 15000 /\ up >= 4000 /\ lat <= 4000 THEN "stable"
    ELSE IF down < 10000 /\ up < 3000 /\ lat > 6000 THEN "unstable"
    ELSE "neutral"

\* item.trend of the "Operator Analysis" item
OperatorTrend(down, up, lat) ==
    IF down > 15000 /\ up > 4000 /\ lat < 4000 THEN "stable"
    ELSE IF down < 10000 /\ up < 3000 /\ lat > 6000 THEN "unstable"
    ELSE "neutral"

\* the trend renderInsights gives the "Operator Analysis" item; the trend of
\* the template, written "template", when there are no metrics
OperatorAnalysis(m) ==
    IF m = Null THEN "template"
    ELSE OperatorTrend(InsightDown(m), InsightUp(m), InsightLatency(m))

\* the trend of the "Operator Analysis" item on the page
operatorAnalysis == OperatorAnalysis(currentMetrics)

\* a latency status whose bounds are excluded
getLatencyStatusExclusive(latency_ms) ==
    IF latency_ms < 5000 THEN "good"
    ELSE IF latency_ms < 10000 THEN "average"
    ELSE "bad"

getLatencyStatus(latency_ms) ==
    IF latency_ms <= 5000 THEN "good"
    ELSE IF latency_ms <= 10000 THEN "average"
    ELSE "bad"

\* Math.round of a non-negative number of hundredths, in units
MathRound(x) == (x + 50) \div 100

\* the "Latency Trends" / "Latency Analysis" item: its status tag, its trend
\* and the milliseconds its text shows; the template when there are no metrics
LatencyItem(m) ==
    IF m = Null THEN [status |-> "template", trend |-> "template", latVal |-> 0]
    ELSE LET lat == InsightLatency(m)
             status == getLatencyStatus(lat)
         IN  [status |-> status,
              trend |-> CASE status = "good" -> "up"
                          [] status = "average" -> "neutral"
                          [] OTHER -> "down",
              latVal |-> MathRound(lat)]

\* the latency item on the page
latencyInsight == LatencyItem(currentMetrics)

\* metrics around the bounds of the latency status
LatencySamples ==
    [avgDownload : {Num(6000)},
     avgUpload : {Num(2000)},
     avgLatency : {NaN, Num(1), Num(4999), Num(5000), Num(5001), Num(5100),
                   Num(10000), Num(10001), Num(10100)}]

\* const score = m.avgNetworkScore || m.avgScore || 0; an entry that is
\* present is a toFixed text, which is truthy
InsightScore(m) ==
    IF MetricField(m, "avgNetworkScore") # Undef THEN m.avgNetworkScore
    ELSE IF MetricField(m, "avgScore") # Undef THEN m.avgScore
    ELSE Num(0)

\* Math.round(score * 15), NaN for a score that is no number
ScoreTimes15(score) ==
    IF IsNum(score) THEN Num(MathRound(score.n * 15)) ELSE NaN

\* the percentage without the placeholder
ScorePercentWithoutPlaceholder(score) ==
    IF IsNum(ScoreTimes15(score)) THEN ScoreTimes15(score).n ELSE 0

\* const dynamicPerc = Math.round(score * 15) || 12
ScorePercent(score) ==
    IF IsNum(ScoreTimes15(score)) /\ ScoreTimes15(score).n # 0
    THEN ScoreTimes15(score).n
    ELSE 12

getSimpleScoreLabel(score) ==
    IF IsNum(score) /\ score.n >= 800 THEN "Excellent"
    ELSE IF IsNum(score) /\ score.n >= 600 THEN "Good"
    ELSE IF IsNum(score) /\ score.n >= 400 THEN "Average"
    ELSE "Poor"

\* the "Network Performance" / "Network Quality" item: the percentage and the
\* label its text shows; its trend is the template's
PerformanceItem(m) ==
    IF m = Null THEN [percent |-> 0, label |-> "template"]
    ELSE [percent |-> ScorePercent(InsightScore(m)),
          label |-> getSimpleScoreLabel(InsightScore(m))]

\* the performance item on the page
performanceInsight == PerformanceItem(currentMetrics)

\* metrics around the scores whose percentage rounds to 0
ScoreSamples ==
    [avgDownload : {Num(6000)},
     avgUpload : {Num(2000)},
     avgNetworkScore : {Undef, NaN, Num(0), Num(3), Num(4), Num(90)},
     avgScore : {Undef, Num(0), Num(50)}]

\* const count = m.recordCount || (m.avgDownload ? (m.avgDownload * 2) : 100)
\* in hundredths; recordCount is a number, avgDownload a toFixed text, truthy
\* when present
UsageCount(m) ==
    LET recordCount == MetricField(m, "recordCount")
        avgDownload == MetricField(m, "avgDownload")
    IN  IF IsNum(recordCount) /\ recordCount.n # 0 THEN Num(recordCount.n * 100)
        ELSE IF avgDownload = Undef THEN Num(10000)
        ELSE IF IsNum(avgDownload) THEN Num(avgDownload.n * 2)
        ELSE NaN

\* (count / 40).toFixed(1), in tenths
UsageFigure(count) ==
    IF IsNum(count) THEN Num(RoundDiv(count.n, 400)) ELSE NaN

\* the "User Engagement" / "Usage Patterns" item: the PB figure of its text,
\* in tenths; its trend is the template's
UsageItem(m) ==
    IF m = Null THEN [pbValue |-> Undef]
    ELSE [pbValue |-> UsageFigure(UsageCount(m))]

\* the usage item on the page
usageInsight == UsageItem(currentMetrics)

\* metrics with and without a recordCount entry
UsageSamples ==
    [avgDownload : {Undef, Num(6000)},
     avgUpload : {Num(2000)},
     recordCount : {Undef, Num(0), Num(90)}]

\* metrics around the bounds of the stability rule; Undef is an absent entry
MetricSamples ==
    [avgDownload : {Undef, NaN, Num(0), Num(9999), Num(10000), Num(15000),
                    Num(15001)},
     avgUpload : {Undef, Num(2999), Num(3000), Num(4000), Num(4001)},
     avgLatency : {Undef, Num(0), Num(3999), Num(4000), Num(6000), Num(6001)}]

\* insights.json is not part of the sources; the sample templates below have
\* the categories renderInsights tests, and one it leaves alone.  The text
\* of an item is written as its wording (the template's, the admin or user
\* phrasing, or the phrasing common to both roles), the location, the label
\* and the number it shows.
TemplateText ==
    [wording |-> "template", location |-> "", label |-> "", number |-> Undef]

Template(category, trend) ==
    [category |-> category, trend |-> trend, insight |-> TemplateText]

InsightTemplates ==
    [admin |-> << Template("Network Performance", "up"),
                  Template("User Engagement", "up"),
                  Template("Operator Analysis", "neutral"),
                  Template("Latency Trends", "down"),
                  Template("Speed Overview", "up"),
                  Template("Expansion", "new") >>,
     user |-> << Template("Network Quality", "up"),
                 Template("Usage Patterns", "neutral"),
                 Template("Operator Analysis", "stable"),
                 Template("Latency Analysis", "up"),
                 Template("Speed Recommendation", "new"),
                 Template("Speed Overview", "up") >>]

\* the context string: the city, else the state, else "your area"
Location(f) ==
    IF f.city \notin {"", "All"} THEN f.city
    ELSE IF f.state \notin {"", "All"} THEN f.state
    ELSE "your area"

\* the "Speed Recommendation" item: up above 50 Mbps, and the rounded speed
SpeedRecommendation(m) ==
    [trend |-> IF InsightDown(m) > 5000 THEN "up" ELSE "neutral",
     speedVal |-> MathRound(InsightDown(m))]

\* the "Speed Overview" item: the quality and the trend for the speed
SpeedOverview(m) ==
    LET down == InsightDown(m)
    IN  IF down > 10000 THEN [quality |-> "Excellent", trend |-> "stable"]
        ELSE IF down > 5000 THEN [quality |-> "Good", trend |-> "up"]
        ELSE IF down > 2000 THEN [quality |-> "Average", trend |-> "neutral"]
        ELSE [quality |-> "Poor", trend |-> "down"]

\* a callback whose trends depend on the role
RenderItemByRole(r, item, f, m) ==
    IF m = Null THEN item
    ELSE [item EXCEPT
             !.trend = IF r = "admin" THEN "up" ELSE "down",
             !.insight = [wording |-> r, location |-> Location(f),
                          label |-> "", number |-> Undef]]

\* the callback of roleInsights.map: the item as the card shows it
RenderItem(r, item, f, m) ==
    IF m = Null THEN item
    ELSE LET place == Location(f)
             category == item.category
         IN  CASE category \in {"Network Performance", "Network Quality"} ->
                      [item EXCEPT !.insight =
                          [wording |-> r, location |-> place,
                           label |-> PerformanceItem(m).label,
                           number |-> Num(PerformanceItem(m).percent)]]
               [] category \in {"User Engagement", "Usage Patterns"} ->
                      [item EXCEPT !.insight =
                          [wording |-> r, location |-> place,
                           label |-> "", number |-> UsageItem(m).pbValue]]
               [] category = "Operator Analysis" ->
                      [item EXCEPT
                          !.trend = OperatorAnalysis(m),
                          !.insight =
                              [wording |-> "common", location |-> place,
                               label |-> OperatorAnalysis(m),
                               number |-> Undef]]
               [] category \in {"Latency Trends", "Latency Analysis"} ->
                      [item EXCEPT
                          !.trend = LatencyItem(m).trend,
                          !.insight =
                              [wording |-> "common", location |-> place,
                               label |-> LatencyItem(m).status,
                               number |-> Num(LatencyItem(m).latVal)]]
               [] category = "Speed Recommendation" ->
                      [item EXCEPT
                          !.trend = SpeedRecommendation(m).trend,
                          !.insight =
                              [wording |-> "common", location |-> place,
                               label |-> "",
                               number |-> Num(SpeedRecommendation(m).speedVal)]]
               [] category = "Speed Overview" ->
                      [item EXCEPT
                          !.trend = SpeedOverview(m).trend,
                          !.insight =
                              [wording |-> "common", location |-> place,
                               label |-> SpeedOverview(m).quality,
                               number |-> Undef]]
               [] OTHER -> item

\* the cards renderInsights writes for the role
RenderCards(r, ins, f, m) ==
    [kind |-> "cards",
     cards |-> [i \in DOMAIN ins[r] |-> RenderItem(r, ins[r][i], f, m)]]

\* a renderInsights that works on the loaded templates themselves
RenderStepWithoutClone(r, ins, f, m) ==
    [insights |-> [ins EXCEPT ![r] = RenderCards(r, ins, f, m).cards],
     rendered |-> RenderCards(r, ins, f, m)]

\* renderInsights: the items are changed on a deep clone of the templates, so
\* this.insights is as before
RenderStep(r, ins, f, m) ==
    [insights |-> ins, rendered |-> RenderCards(r, ins, f, m)]

\* the end of updateContext(f, m): renderInsights when the templates are there
InsightsUpdate(f, m) ==
    IF insights = Null THEN UNCHANGED <<insights, rendered>>
    ELSE /\ insights' = RenderStep(role, insights, f, m).insights
         /\ rendered' = RenderStep(role, insights, f, m).rendered

-----------------------------------------------------------------------------
(* Controllers *)

\* DashboardController.updateKPIs: the four cards
UserCards(kpis) ==
    [bestOperator |-> kpis.bestOperator, avgDownload |-> kpis.avgDownload,
     avgUpload |-> kpis.avgUpload, networkScore |-> getScoreLabel(kpis.avgScore)]

AllCharts(data) ==
    [downloadSpeed |-> getDownloadSpeedByOperatorCity(data),
     latency |-> getLatencyByPeakHour(data),
     hourlySpeed |-> getHourlyDownloadSpeed(data)]

UserCore ==
    {"calculateKPIs", "updateAllCharts", "getMapData", "getAreaWiseData"}

\* DashboardController.updateDashboard with dataProcessor holding (f, data);
\* the charts and the map are redrawn from data, see userCharts and mapData
updateDashboard(f, data) ==
    /\ kpiCards' = UserCards(calculateKPIs(data))
    /\ tableData' = updateTable(currentSort, data)
    /\ currentFilters' = f
    /\ currentMetrics' = calculateKPIs(data)
    /\ InsightsUpdate(f, calculateKPIs(data))
    /\ shownFor' = [v \in DOMAIN Views |-> data]

\* populateDropdown: the new options, the previous value when it is still one
populateDropdown(element, values) ==
    [options |-> Range(values),
     value |-> IF element.value \in Range(values) THEN element.value ELSE "All"]

\* what ChartManager.updateAllCharts has drawn
userCharts == AllCharts(shownFor.charts)

\* what MapManager.updateMap has read from getMapData
mapData == getMapData(shownFor.map)

\* the markers on the map
markers == Markers(shownFor.map)

\* the totals row renderTable writes under the rows of the table
totals == calculateTotals(tableData)

\* initialize(), the fetch answered with the records d
LoadData(d) ==
    /\ role = "user" /\ pc = "loading"
    /\ rawData' = d
    /\ filteredData' = d
    /\ loadResult' = "ok"
    /\ dropdown' =
         [dropdown EXCEPT
            !.state = populateDropdown(@, getUniqueValues(d, "state")),
            !.network = populateDropdown(@, getUniqueValues(d, "network_type"))]
    /\ updateDashboard(filters, d)
    /\ coreCalls' = coreCalls \cup UserCore \cup {"initializeFilters"}
    /\ pc' = "ready"
    /\ lastEvent' = [kind |-> "load", value |-> "ok"]
    /\ UNCHANGED <<localStorage, location, role, filters, currentSort>>
    /\ UNCHANGED AdminVars

\* initialize(), the fetch or the parse failed: showError and return
LoadDataFails ==
    /\ role = "user" /\ pc = "loading"
    /\ loadResult' = "failed"
    /\ pc' = "failed"
    /\ lastEvent' = [kind |-> "load", value |-> "failed"]
    /\ UNCHANGED <<localStorage, location, role, kpiCards, currentFilters, currentMetrics, insights, rendered, shownFor,
                   coreCalls, rawData, filteredData, filters, dropdown,
                   tableData, currentSort>>
    /\ UNCHANGED AdminVars

\* the change listener of the state dropdown
ChangeState(v) ==
    /\ role = "user" /\ pc = "ready"
    /\ v \in (dropdown.state.options \cup {"All"}) \ {dropdown.state.value}
    /\ LET f == updateFilter(filters, "state", v)
           data == applyFilters(rawData, f)
       IN  /\ filters' = f
           /\ filteredData' = data
           /\ dropdown' =
                [dropdown EXCEPT
                   !.state.value = v,
                   !.city = populateDropdown(@, getCitiesForState(rawData, f.state))]
           /\ updateDashboard(f, data)
    /\ coreCalls' = coreCalls \cup UserCore \cup {"applyFilters"}
    /\ lastEvent' = [kind |-> "state", value |-> v]
    /\ UNCHANGED <<localStorage, location, role, pc, loadResult, rawData, currentSort>>
    /\ UNCHANGED AdminVars

\* the change listener of the city dropdown
ChangeCity(v) ==
    /\ role = "user" /\ pc = "ready"
    /\ v \in (dropdown.city.options \cup {"All"}) \ {dropdown.city.value}
    /\ LET f == updateFilter(filters, "city", v)
           data == applyFilters(rawData, f)
       IN  /\ filters' = f
           /\ filteredData' = data
           /\ dropdown' =
                [dropdown EXCEPT
                   !.city.value = v,
                   !.area = populateDropdown(@, getAreasForCity(rawData, f.city))]
           /\ updateDashboard(f, data)
    /\ coreCalls' = coreCalls \cup UserCore \cup {"applyFilters"}
    /\ lastEvent' = [kind |-> "city", value |-> v]
    /\ UNCHANGED <<localStorage, location, role, pc, loadResult, rawData, currentSort>>
    /\ UNCHANGED AdminVars

\* the change listener of the area dropdown
ChangeArea(v) ==
    /\ role = "user" /\ pc = "ready"
    /\ v \in (dropdown.area.options \cup {"All"}) \ {dropdown.area.value}
    /\ LET f == updateFilter(filters, "area", v)
           data == applyFilters(rawData, f)
       IN  /\ filters' = f
           /\ filteredData' = data
           /\ dropdown' = [dropdown EXCEPT !.area.value = v]
           /\ updateDashboard(f, data)
    /\ coreCalls' = coreCalls \cup UserCore \cup {"applyFilters"}
    /\ lastEvent' = [kind |-> "area", value |-> v]
    /\ UNCHANGED <<localStorage, location, role, pc, loadResult, rawData, currentSort>>
    /\ UNCHANGED AdminVars

\* the change listener of the network dropdown
\* a network change whose filter keeps its result in rawData
ChangeNetworkFilteringInPlace(v) ==
    /\ role = "user" /\ pc = "ready"
    /\ v \in (dropdown.network.options \cup {"All"}) \ {dropdown.network.value}
    /\ LET f == updateFilter(filters, "network", v)
           data == applyFilters(rawData, f)
       IN  /\ filters' = f
           /\ rawData' = data
           /\ filteredData' = data
           /\ dropdown' = [dropdown EXCEPT !.network.value = v]
           /\ updateDashboard(f, data)
    /\ coreCalls' = coreCalls \cup UserCore \cup {"applyFilters"}
    /\ lastEvent' = [kind |-> "network", value |-> v]
    /\ UNCHANGED <<localStorage, location, role, pc, loadResult, currentSort>>
    /\ UNCHANGED AdminVars

ChangeNetwork(v) ==
    /\ role = "user" /\ pc = "ready"
    /\ v \in (dropdown.network.options \cup {"All"}) \ {dropdown.network.value}
    /\ LET f == updateFilter(filters, "network", v)
           data == applyFilters(rawData, f)
       IN  /\ filters' = f
           /\ filteredData' = data
           /\ dropdown' = [dropdown EXCEPT !.network.value = v]
           /\ updateDashboard(f, data)
    /\ coreCalls' = coreCalls \cup UserCore \cup {"applyFilters"}
    /\ lastEvent' = [kind |-> "network", value |-> v]
    /\ UNCHANGED <<localStorage, location, role, pc, loadResult, rawData, currentSort>>
    /\ UNCHANGED AdminVars

\* DashboardController.resetFilters; filterElements is {} until
\* initializeFilters has run
resetFilters ==
    /\ role = "user"
    /\ LET f == AllFilters
           data == applyFilters(rawData, f)
           cleared == [d \in FilterNames |-> [dropdown[d] EXCEPT !.value = "All"]]
       IN  /\ filters' = f
           /\ filteredData' = data
           /\ dropdown' =
                IF pc # "ready" THEN dropdown
                ELSE [cleared EXCEPT
                        !.city = populateDropdown(
                                     @, getCitiesForState(rawData, f.state)),
                        !.area = populateDropdown(
                                     @, getAreasForCity(rawData, f.city))]
           /\ updateDashboard(f, data)
    /\ coreCalls' = coreCalls \cup UserCore \cup {"applyFilters"}
    /\ lastEvent' = [kind |-> "reset", value |-> "All"]
    /\ UNCHANGED <<localStorage, location, role, pc, loadResult, rawData, currentSort>>
    /\ UNCHANGED AdminVars

\* AdminDashboardController.updateKPIs: the four cards
AdminCards(metrics) ==
    [avgUpload |-> metrics.avgUpload, avgDownload |-> metrics.avgDownload,
     avgLatency |-> metrics.avgLatency,
     avgScore |-> getScoreLabel(metrics.avgNetworkScore)]

AdminCore ==
    {"filterData", "getAggregatedMetrics", "getChartData", "renderCharts"}

\* AdminDashboardController.updateDashboard with the filters f; updateKPIs
\* returns before it writes the cards when the metrics are null; the charts
\* are redrawn from data, see chartData and adminSeries
adminUpdateDashboard(f, raw) ==
    LET data == filterData(raw, f)
        metrics == getAggregatedMetrics(data)
    IN  /\ kpiCards' = IF metrics = Null THEN kpiCards ELSE AdminCards(metrics)
        /\ currentFilters' = f
        /\ currentMetrics' = metrics
        /\ InsightsUpdate(f, metrics)
        /\ shownFor' = [shownFor EXCEPT
                          !.kpis = IF metrics = Null THEN @ ELSE data,
                          !.charts = data,
                          !.insights = data]

\* the groupings the admin charts were last drawn from, and their series
chartData == getChartData(shownFor.charts)

adminSeries == renderCharts(chartData)

\* init(), loadData answered with the records d
AdminLoadData(d) ==
    /\ role = "admin" /\ pc = "loading"
    /\ d \in Datasets
    /\ ~isLoaded
    /\ svcRawData' = d
    /\ isLoaded' = TRUE
    /\ loadResult' = "ok"
    /\ cityOptions' = Range(getFilterOptions(d).cities)
    /\ adminUpdateDashboard(adminFilters, d)
    /\ coreCalls' = coreCalls \cup AdminCore \cup {"initFilters"}
    /\ pc' = "ready"
    /\ UNCHANGED <<localStorage, location, role, adminFilters>>
    /\ UNCHANGED UserVars

\* init(), the fetch failed: loadData logs the error and returns [], and
\* init goes on with the empty rawData
AdminLoadDataFails ==
    /\ role = "admin" /\ pc = "loading"
    /\ ~isLoaded
    /\ loadResult' = "failed"
    /\ cityOptions' = Range(getFilterOptions(svcRawData).cities)
    /\ adminUpdateDashboard(adminFilters, svcRawData)
    /\ coreCalls' = coreCalls \cup AdminCore \cup {"initFilters"}
    /\ pc' = "ready"
    /\ UNCHANGED <<localStorage, location, role, svcRawData, isLoaded, adminFilters>>
    /\ UNCHANGED UserVars

\* updateCityDropdown: the options offered after a state was selected
updateCityDropdown(raw, selectedState) ==
    IF selectedState = "All"
    THEN UNION { Range(getStateToCitiesMap(raw, st)) :
                   st \in { r.state : r \in Range(raw) } }
    ELSE Range(getStateToCitiesMap(raw, selectedState))

\* the change listener of stateFilter
AdminChangeState(v) ==
    /\ role = "admin" /\ pc = "ready"
    /\ v \in (Range(getFilterOptions(svcRawData).states) \cup {"All"})
             \ {adminFilters.state}
    /\ LET f == [adminFilters EXCEPT !.state = v, !.city = "All"]
       IN  /\ adminFilters' = f
           /\ cityOptions' = updateCityDropdown(svcRawData, v)
           /\ adminUpdateDashboard(f, svcRawData)
    /\ coreCalls' = coreCalls \cup AdminCore
    /\ UNCHANGED <<localStorage, location, role, pc, loadResult, svcRawData, isLoaded>>
    /\ UNCHANGED UserVars

SelectIds == {"cityFilter", "operatorFilter", "networkFilter"}

\* mapKey of the listener of the three other selects
MapKey(id) ==
    IF id = "cityFilter" THEN "city"
    ELSE IF id = "operatorFilter" THEN "operator" ELSE "network_type"

SelectOptions(id) ==
    IF id = "cityFilter" THEN cityOptions
    ELSE IF id = "operatorFilter"
    THEN Range(getFilterOptions(svcRawData).operators)
    ELSE Range(getFilterOptions(svcRawData).networkTypes)

\* the change listener of cityFilter, operatorFilter and networkFilter
AdminChangeSelect(id, v) ==
    /\ role = "admin" /\ pc = "ready"
    /\ id \in SelectIds
    /\ v \in (SelectOptions(id) \cup {"All"}) \ {adminFilters[MapKey(id)]}
    /\ LET f == [adminFilters EXCEPT ![MapKey(id)] = v]
       IN  /\ adminFilters' = f
           /\ adminUpdateDashboard(f, svcRawData)
    /\ coreCalls' = coreCalls \cup AdminCore
    /\ UNCHANGED <<localStorage, location, role, pc, loadResult, svcRawData, isLoaded, cityOptions>>
    /\ UNCHANGED UserVars

\* toggleYear, a click on a year tile
toggleYear(year) ==
    /\ role = "admin" /\ pc = "ready"
    /\ year \in Range(getFilterOptions(svcRawData).years)
    /\ LET f == [adminFilters EXCEPT
                   !.years = IF year \in Range(@)
                             THEN SelectSeq(@, LAMBDA y : y # year)
                             ELSE Append(@, year)]
       IN  /\ adminFilters' = f
           /\ adminUpdateDashboard(f, svcRawData)
    /\ coreCalls' = coreCalls \cup AdminCore
    /\ UNCHANGED <<localStorage, location, role, pc, loadResult, svcRawData, isLoaded, cityOptions>>
    /\ UNCHANGED UserVars

\* updateMonth, an input event of the month slider
updateMonth(val) ==
    /\ role = "admin" /\ pc = "ready"
    /\ val \in (1..MaxMonth) \ {adminFilters.month_start}
    /\ LET f == [adminFilters EXCEPT !.month_start = val]
       IN  /\ adminFilters' = f
           /\ adminUpdateDashboard(f, svcRawData)
    /\ coreCalls' = coreCalls \cup AdminCore
    /\ UNCHANGED <<localStorage, location, role, pc, loadResult, svcRawData, isLoaded, cityOptions>>
    /\ UNCHANGED UserVars

\* the data-column values of the sortable headers
SortColumns == {"area", "operator", "download", "upload", "score"}

\* TableManager.sortTable, a click on a header; initializeTable has attached
\* the listeners
\* a sortTable that takes every click as a click on a new column
sortTableNeverFlipping(column) ==
    /\ role = "user" /\ pc = "ready"
    /\ column \in SortColumns
    /\ LET sort == [column |-> column, direction |-> "desc"]
       IN  /\ currentSort' = sort
           /\ tableData' = applySorting(sort, tableData)
    /\ lastEvent' = [kind |-> "sort", value |-> column]
    /\ UNCHANGED <<localStorage, location, role, pc, loadResult, rawData, filteredData, filters,
                   dropdown, kpiCards, currentFilters, currentMetrics, insights, rendered,
                   shownFor, coreCalls>>
    /\ UNCHANGED AdminVars

sortTable(column) ==
    /\ role = "user" /\ pc = "ready"
    /\ column \in SortColumns
    /\ LET sort == IF currentSort.column = column
                   THEN [currentSort EXCEPT
                           !.direction = IF @ = "asc" THEN "desc" ELSE "asc"]
                   ELSE [column |-> column, direction |-> "desc"]
       IN  /\ currentSort' = sort
           /\ tableData' = applySorting(sort, tableData)
    /\ lastEvent' = [kind |-> "sort", value |-> column]
    /\ UNCHANGED <<localStorage, location, role, pc, loadResult, rawData, filteredData, filters,
                   dropdown, kpiCards, currentFilters, currentMetrics, insights, rendered,
                   shownFor, coreCalls>>
    /\ UNCHANGED AdminVars

\* tableManager.exportToCSV(): an alert on an empty table, else the download
\* of the file; the state of the page is left alone
exportToCSV ==
    /\ role = "user"
    /\ lastEvent' = [kind |-> "export",
                     value |-> IF Len(tableData) = 0 THEN "alert" ELSE "file"]
    /\ UNCHANGED <<localStorage, location, role, pc, loadResult, rawData, filteredData, filters,
                   dropdown, kpiCards, tableData, currentSort, currentFilters,
                   currentMetrics, insights, rendered, shownFor, coreCalls>>
    /\ UNCHANGED AdminVars

\* the file an export of the table in this state produces
csv == CsvText(tableData)

Names == Range(NameOrder) \cup {"All"}

Years == { r.year : r \in RecordPool }

Next ==
    \/ \E d \in Datasets : LoadData(d)
    \/ LoadDataFails
    \/ \E v \in Names : ChangeState(v)
    \/ \E v \in Names : ChangeCity(v)
    \/ \E v \in Names : ChangeArea(v)
    \/ \E v \in Names : ChangeNetwork(v)
    \/ resetFilters
    \/ \E d \in Datasets : AdminLoadData(d)
    \/ AdminLoadDataFails
    \/ \E v \in Names : AdminChangeState(v)
    \/ \E id \in SelectIds, v \in Names : AdminChangeSelect(id, v)
    \/ \E year \in Years : toggleYear(year)
    \/ \E val \in 1..MaxMonth : updateMonth(val)

Spec == Init /\ [][Next]_vars

\* fetchInsights, the fetch answered with the templates: they are kept and
\* rendered for the context of the moment
fetchInsights ==
    /\ insights' =
           RenderStep(role, InsightTemplates, currentFilters, currentMetrics)
               .insights
    /\ rendered' =
           RenderStep(role, InsightTemplates, currentFilters, currentMetrics)
               .rendered
    /\ lastEvent' = [kind |-> "insights", value |-> "loaded"]
    /\ UNCHANGED <<localStorage, location, role, pc, loadResult, kpiCards, currentFilters,
                   currentMetrics, shownFor, coreCalls>>
    /\ UNCHANGED <<rawData, filteredData, filters, dropdown, tableData,
                   currentSort>>
    /\ UNCHANGED AdminVars

\* fetchInsights, the fetch or the parse failed: the container shows the alert
fetchInsightsFails ==
    /\ insights = Null
    /\ rendered' = [kind |-> "error", cards |-> <<>>]
    /\ lastEvent' = [kind |-> "insights", value |-> "failed"]
    /\ UNCHANGED <<localStorage, location, role, pc, loadResult, kpiCards, currentFilters,
                   currentMetrics, insights, shownFor, coreCalls>>
    /\ UNCHANGED <<rawData, filteredData, filters, dropdown, tableData,
                   currentSort>>
    /\ UNCHANGED AdminVars

\* the user page over the second sample file, with the table's sort requests
TableInit == Init /\ role = "user"

TableNext ==
    \/ \E d \in AreaDatasets : LoadData(d)
    \/ \E v \in Names : ChangeNetwork(v)
    \/ \E column \in SortColumns : sortTable(column)
    \/ exportToCSV
    \/ fetchInsights

TableSpec == TableInit /\ [][TableNext]_vars

-----------------------------------------------------------------------------
(* The insights panel under updateContext *)

ContextFilters == {NoFilters, AllFilters}

\* InsightsManager.updateContext(filters, metrics); lastEvent keeps whether
\* the context it replaces had metrics
updateContext(f, metrics) ==
    /\ currentFilters' = f
    /\ currentMetrics' = metrics
    /\ InsightsUpdate(f, metrics)
    /\ lastEvent' = [kind |-> "context",
                     value |-> IF currentMetrics = Null THEN "after null"
                               ELSE "after metrics"]
    /\ UNCHANGED <<localStorage, location, role, pc, loadResult, kpiCards, shownFor, coreCalls>>
    /\ UNCHANGED <<rawData, filteredData, filters, dropdown, tableData,
                   currentSort>>
    /\ UNCHANGED AdminVars

\* the metrics a caller may hand over
ContextMetrics ==
    MetricSamples \cup LatencySamples \cup ScoreSamples \cup UsageSamples
        \cup {Null}

InsightsNext ==
    \E f \in ContextFilters, metrics \in ContextMetrics :
        updateContext(f, metrics)

\* the insights panel under any caller of updateContext
InsightsSpec == Init /\ [][InsightsNext]_vars

\* metrics of the shape of either page, one per outcome of the items
RenderMetrics ==
    { Null,
      [avgDownload |-> Num(20000), avgUpload |-> Num(5000),
       avgLatency |-> Num(2000), avgNetworkScore |-> Num(90),
       totalRecords |-> 2],
      [avgDownload |-> Num(4000), avgUpload |-> Num(1000),
       avgLatency |-> Num(12000), avgNetworkScore |-> Num(3),
       totalRecords |-> 1],
      [avgDownload |-> Num(6000), avgUpload |-> Num(2000),
       avgLatency |-> Num(7000), avgNetworkScore |-> Num(50),
       totalRecords |-> 3],
      [bestOperator |-> "JIO", avgDownload |-> Num(20000),
       avgUpload |-> Num(5000), avgScore |-> Num(90)],
      [bestOperator |-> "N/A", avgDownload |-> NaN, avgUpload |-> Num(1000),
       avgScore |-> NaN] }

RenderFilters ==
    {NoFilters, AllFilters, [AllFilters EXCEPT !.state = "KA"],
     [AllFilters EXCEPT !.state = "KA", !.city = "Blr"]}

RenderNext ==
    \/ \E f \in RenderFilters, metrics \in RenderMetrics :
           updateContext(f, metrics)
    \/ fetchInsights
    \/ fetchInsightsFails

\* the insights panel with the loading of its templates
RenderSpec == Init /\ [][RenderNext]_vars

-----------------------------------------------------------------------------
(* Filtering: C1, C2 *)

UserDims == {"state", "city", "area", "network", "operator"}

\* the record field a dimension of DataProcessor.filters selects on
UserField(dim) == IF dim = "network" THEN "network_type" ELSE dim

AdminDims == {"state", "city", "operator", "network_type"}

\* r meets every constraint of the user filter state f
MeetsUser(f, r) ==
    \A dim \in UserDims : f[dim] = "All" \/ r[UserField(dim)] = f[dim]

\* r meets every constraint of the admin filter state f: the four selects, the
\* year set (empty: no constraint) and the single month
MeetsAdmin(f, r) ==
    /\ \A dim \in AdminDims : f[dim] = "All" \/ r[dim] = f[dim]
    /\ (f.years = <<>> \/ r.year \in Range(f.years))
    /\ r.month = f.month_start

\* out holds exactly the records of raw that meet the constraints, each once
IsSelection(out, raw, Meets(_)) ==
    /\ Range(out) \subseteq Range(raw)
    /\ \A r \in Range(out) : Meets(r)
    /\ \A r \in Range(raw) : Meets(r) => r \in Range(out)
    /\ Len(out) = Cardinality({ i \in DOMAIN raw : Meets(raw[i]) })

\* C1: the filtered set that applyFilters (user page) and filterData (admin
\* page) produce is a subset of the raw records, each of its records equals the
\* selected value on every dimension that is not "All" (on the admin page also:
\* its year is in the selected year set and its month is the selected month),
\* every raw record that meets all the constraints is in it, and with every
\* dimension "All" it is the whole raw set.
C1_FilteredSetIsExactlyTheMatchingRecords ==
    /\ role = "user" =>
         /\ IsSelection(filteredData, rawData, LAMBDA r : MeetsUser(filters, r))
         /\ (\A dim \in UserDims : filters[dim] = "All") => filteredData = rawData
    /\ role = "admin" /\ pc = "ready" =>
         IsSelection(shownFor.charts, svcRawData,
                     LAMBDA r : MeetsAdmin(adminFilters, r))

\* an area is selected, and it keeps some records and drops others
C1_Witness ==
    /\ role = "user" /\ pc = "ready"
    /\ filters.area # "All"
    /\ filteredData # <<>>
    /\ Len(filteredData) < Len(rawData)

\* C2: a step that selects a state sets the state and resets city and area to
\* "All"; a step that selects a city sets the city and resets area to "All"; a
\* step that selects an area or a network sets that entry only; on the admin
\* page a step that changes the state resets city to "All"; no other entry of
\* the filters changes in the step.
C2_SelectionResetsDependentFilters ==
    [][ /\ lastEvent'.kind = "state" =>
             filters' = [filters EXCEPT !.state = lastEvent'.value,
                                        !.city = "All", !.area = "All"]
        /\ lastEvent'.kind = "city" =>
             filters' = [filters EXCEPT !.city = lastEvent'.value,
                                        !.area = "All"]
        /\ lastEvent'.kind \in {"area", "network"} =>
             filters' = [filters EXCEPT ![lastEvent'.kind] = lastEvent'.value]
        /\ adminFilters'.state # adminFilters.state =>
             adminFilters' = [adminFilters EXCEPT !.state = adminFilters'.state,
                                                  !.city = "All"]
      ]_vars

\* a state was selected while an area was shown as selected: the area filter
\* is back to "All"
C2_Witness ==
    /\ role = "user" /\ lastEvent.kind = "state"
    /\ dropdown.area.value # "All"
    /\ filters.city = "All" /\ filters.area = "All"

-----------------------------------------------------------------------------
(* Recomputation and loading: C3, C4 *)

\* the records that match the filter state of the open page
CurrentSelection ==
    IF role = "user" THEN applyFilters(rawData, filters)
    ELSE filterData(svcRawData, adminFilters)

\* the views of the open page
PageViews ==
    IF role = "user" THEN {"kpis", "charts", "map", "table", "insights"}
    ELSE {"kpis", "charts", "insights"}

\* C3: once the page is up, every view (KPIs, charts, map, table, insights)
\* shows what was computed from the records matching the current filter state;
\* none is left showing an earlier filter state.
C3_EveryViewReflectsCurrentFilters ==
    pc = "ready" => \A v \in PageViews : shownFor[v] = CurrentSelection

\* C4: a core computation (filter initialisation, filtering, aggregation, KPI,
\* chart) has run only after the load has succeeded; after a failed load none
\* has run.
C4_CoreRunsOnlyAfterSuccessfulLoad ==
    /\ coreCalls # {} => loadResult = "ok"
    /\ loadResult = "failed" => coreCalls = {}

-----------------------------------------------------------------------------
(* KPIs: C5, C6, C7 *)

\* C5: when the filtered set is empty the KPI computation returns a snapshot,
\* with every numeric field 0 and, on the user page, bestOperator "N/A".
C5_EmptySetGivesZeroSnapshot ==
    pc = "ready" /\ CurrentSelection = <<>> =>
        IF role = "user"
        THEN currentMetrics = [bestOperator |-> "N/A", avgDownload |-> Num(0),
                               avgUpload |-> Num(0), avgScore |-> Num(0)]
        ELSE /\ currentMetrics # Null
             /\ currentMetrics.avgDownload = Num(0)
             /\ currentMetrics.avgUpload = Num(0)
             /\ currentMetrics.avgLatency = Num(0)
             /\ currentMetrics.avgNetworkScore = Num(0)

\* the confidence_score of a record as a number, an absent one as 0
ScoreOrZero(r) == IF IsNum(r.confidence_score) THEN r.confidence_score.n ELSE 0

\* the operator groups of data: the upper-cased names in first-seen order
GroupKeys(data) == Distinct([i \in DOMAIN data |-> ToUpperCase(data[i].operator)])

Members(data, g) == { i \in DOMAIN data : ToUpperCase(data[i].operator) = g }

RECURSIVE ScoreSum(_, _)
ScoreSum(data, I) ==
    IF I = {} THEN 0
    ELSE LET i == CHOOSE x \in I : TRUE
         IN  ScoreOrZero(data[i]) + ScoreSum(data, I \ {i})

GroupTotal(data, g) == ScoreSum(data, Members(data, g))

GroupCount(data, g) == Cardinality(Members(data, g))

\* the average of group g is greater than the average of group h
AvgGreater(data, g, h) ==
    GroupTotal(data, g) * GroupCount(data, h)
        > GroupTotal(data, h) * GroupCount(data, g)

AvgPositive(data, g) == GroupTotal(data, g) > 0

\* the first group, in first-seen order, among those of greatest average
FirstOfGreatest(data) ==
    LET keys == GroupKeys(data)
        top == { i \in DOMAIN keys :
                   \A j \in DOMAIN keys : ~AvgGreater(data, keys[j], keys[i]) }
    IN  keys[CHOOSE i \in top : \A j \in top : i <= j]

C7_ZeroAverageNeverWins ==
    role = "user" /\ filteredData # <<>> =>
        LET keys == Range(GroupKeys(filteredData))
            best == currentMetrics.bestOperator
        IN  /\ (\E g \in keys : AvgPositive(filteredData, g)) =>
                   best \in keys /\ AvgPositive(filteredData, best)
            /\ (\A g \in keys : ~AvgPositive(filteredData, g)) => best = "N/A"

\* the group seen first has average 0, a later one a positive average, and
\* the later one is returned
C7_Witness ==
    /\ role = "user" /\ Len(GroupKeys(filteredData)) = 2
    /\ LET keys == GroupKeys(filteredData)
       IN  /\ GroupTotal(filteredData, keys[1]) = 0
           /\ AvgPositive(filteredData, keys[2])
           /\ currentMetrics.bestOperator = keys[2]

-----------------------------------------------------------------------------
(* Aggregation: C8, C9, C10 *)

RECURSIVE SumSeq(_)
SumSeq(s) == IF s = <<>> THEN 0 ELSE Head(s) + SumSeq(Tail(s))

\* the number of records the buckets of a grouping have counted
PeakCounted(entries) ==
    SumSeq([i \in DOMAIN entries |->
               entries[i].peakCount + entries[i].nonPeakCount])

CityNetCounted(entries) ==
    SumSeq([i \in DOMAIN entries |-> entries[i].count4G + entries[i].count5G])

CoverageCounted(entries) ==
    SumSeq([i \in DOMAIN entries |-> entries[i].n4G + entries[i].n5G])

GroupCounted(entries) == SumSeq([i \in DOMAIN entries |-> entries[i].count])

\* the records a chart of "4G" against "5G" has a bucket for
Is4Gor5G(r) == r.network_type \in {"4G", "5G"}

\* C8 as stated: in each of the six groupings of getChartData the bucket
\* counts sum to the number of input records.
C8_EveryGroupingCountsEveryRecord ==
    role = "admin" /\ pc = "ready" =>
        LET n == Len(shownFor.charts)
        IN  /\ PeakCounted(chartData.downloadByOpPeak) = n
            /\ CityNetCounted(chartData.latencyByCityNet) = n
            /\ CoverageCounted(chartData.coverageGrowth) = n
            /\ GroupCounted(chartData.downloadByYearOp) = n
            /\ PeakCounted(chartData.latencyByYearPeak) = n
            /\ GroupCounted(chartData.scoreByOp) = n

\* C8 amended: the bucket counts of operator x peak flag, year x operator,
\* year x peak flag and operator sum to the number of input records; those of
\* city x network_type and year x network_type, which hold a "4G" and a "5G"
\* bucket only, sum to the number of input records of network_type "4G" or
\* "5G".
C8_GroupingsCountTheRecordsTheyBucket ==
    role = "admin" /\ pc = "ready" =>
        LET data == shownFor.charts
            n == Len(data)
            n45 == Len(SelectSeq(data, Is4Gor5G))
        IN  /\ PeakCounted(chartData.downloadByOpPeak) = n
            /\ CityNetCounted(chartData.latencyByCityNet) = n45
            /\ CoverageCounted(chartData.coverageGrowth) = n45
            /\ GroupCounted(chartData.downloadByYearOp) = n
            /\ PeakCounted(chartData.latencyByYearPeak) = n
            /\ GroupCounted(chartData.scoreByOp) = n

\* the charts were drawn from a "3G" record next to a "5G" record
C8_Witness ==
    /\ role = "admin" /\ pc = "ready"
    /\ \E i, j \in DOMAIN shownFor.charts :
          /\ shownFor.charts[i].network_type = "3G"
          /\ shownFor.charts[j].network_type = "5G"

\* the cells of a user chart that no record of data falls into are 0
EmptyCellsAreZero(chart, data, InCell(_, _, _)) ==
    \A o \in DOMAIN chart.datasets : \A l \in DOMAIN chart.labels :
        (\A r \in Range(data) :
            ~InCell(r, chart.labels[l], chart.datasets[o].label))
        => chart.datasets[o].data[l] = Num(0)

RowIsNumeric(row) ==
    IsNum(row.avgDownload) /\ IsNum(row.avgUpload) /\ IsNum(row.avgScore)

\* C10: no aggregate is non-numeric: a measure field that a record lacks
\* counts as 0 in the KPI averages, the chart groupings, the rows of the
\* area-wise table and the map summaries.
C10_AggregatesStayNumeric ==
    /\ role = "user" /\ pc = "ready" =>
         /\ IsNum(currentMetrics.avgDownload)
         /\ IsNum(currentMetrics.avgUpload)
         /\ IsNum(currentMetrics.avgScore)
         /\ \A i \in DOMAIN tableData : RowIsNumeric(tableData[i])
         /\ \A i \in DOMAIN mapData : IsNum(mapData[i].avgScore)
         /\ \A o \in DOMAIN userCharts.downloadSpeed.datasets :
            \A l \in DOMAIN userCharts.downloadSpeed.labels :
               IsNum(userCharts.downloadSpeed.datasets[o].data[l])
    /\ role = "admin" /\ pc = "ready" =>
         /\ \A i \in DOMAIN chartData.downloadByOpPeak :
               /\ IsNum(chartData.downloadByOpPeak[i].peakSum)
               /\ IsNum(chartData.downloadByOpPeak[i].nonPeakSum)
         /\ \A i \in DOMAIN chartData.latencyByCityNet :
               /\ IsNum(chartData.latencyByCityNet[i].sum4G)
               /\ IsNum(chartData.latencyByCityNet[i].sum5G)
         /\ \A i \in DOMAIN chartData.downloadByYearOp :
               IsNum(chartData.downloadByYearOp[i].total)
         /\ \A i \in DOMAIN chartData.latencyByYearPeak :
               /\ IsNum(chartData.latencyByYearPeak[i].peakSum)
               /\ IsNum(chartData.latencyByYearPeak[i].nonPeakSum)
         /\ \A i \in DOMAIN chartData.scoreByOp :
               IsNum(chartData.scoreByOp[i].total)

-----------------------------------------------------------------------------
(* Map and table: C11 .. C19 *)

\* the positions of the records of data in the area
InArea(data, area) == { i \in DOMAIN data : data[i].area = area }

\* the operators of an area, as named in the records, in first-seen order
AreaOps(data, area) ==
    Distinct([i \in DOMAIN SelectSeq(data, LAMBDA r : r.area = area) |->
                 SelectSeq(data, LAMBDA r : r.area = area)[i].operator])

OpTotal(data, area, op) ==
    ScoreSum(data, { i \in InArea(data, area) : data[i].operator = op })

OpCount(data, area, op) ==
    Cardinality({ i \in InArea(data, area) : data[i].operator = op })

\* the first operator of the area among those of greatest average there, an
\* absent confidence_score counting as 0; "N/A" when that average is not
\* positive
AreaBest(data, area) ==
    LET ops == AreaOps(data, area)
        top == { i \in DOMAIN ops : \A j \in DOMAIN ops :
                   OpTotal(data, area, ops[j]) * OpCount(data, area, ops[i])
                     <= OpTotal(data, area, ops[i]) * OpCount(data, area, ops[j]) }
        first == CHOOSE i \in top : \A j \in top : i <= j
    IN  IF OpTotal(data, area, ops[first]) > 0 THEN ops[first] ELSE "N/A"

\* C11: the best operator a marker shows for an area is the operator of
\* greatest average confidence_score over the filtered records of that area
\* only, the first one met on a tie, "N/A" when no average is positive.
C11_MarkerShowsBestOperatorOfItsArea ==
    role = "user" /\ pc = "ready" =>
        \A i \in DOMAIN markers :
            markers[i].bestOp = AreaBest(shownFor.map, markers[i].area)

\* the sum of a measure field over the records at the positions I, an absent
\* value counting as 0
RECURSIVE MeasureSum(_, _, _)
MeasureSum(data, I, field) ==
    IF I = {} THEN 0
    ELSE LET i == CHOOSE x \in I : TRUE
         IN  (IF IsNum(data[i][field]) THEN data[i][field].n ELSE 0)
                 + MeasureSum(data, I \ {i}, field)

\* the mean of the field over the records at the positions I, as toFixed(2)
\* prints it
MeanOf(data, I, field) ==
    Num(RoundDiv(MeasureSum(data, I, field), Cardinality(I)))

\* C12: getMapData gives one summary per distinct area of the filtered set, in
\* first-seen order; the summary's average score is the mean confidence_score
\* of all records of the area, and its operator list names exactly the
\* operators seen in the area.
C12_OneSummaryPerAreaWithPooledMean ==
    role = "user" /\ pc = "ready" =>
        LET data == shownFor.map
            areas == Distinct([i \in DOMAIN data |-> data[i].area])
        IN  /\ Len(mapData) = Len(areas)
            /\ \A i \in DOMAIN mapData :
                  /\ mapData[i].area = areas[i]
                  /\ mapData[i].count = Cardinality(InArea(data, areas[i]))
                  /\ mapData[i].avgScore =
                         MeanOf(data, InArea(data, areas[i]), "confidence_score")
                  /\ mapData[i].operators = Join(AreaOps(data, areas[i]))

\* the positions of the records of data with the area and the operator
OfPair(data, area, op) ==
    { i \in DOMAIN data : data[i].area = area /\ data[i].operator = op }

\* C13: getAreaWiseData gives one row per distinct (area, operator) pair of
\* the filtered set, and the averages of a row are those of the records of
\* its pair.
C13_OneRowPerAreaOperatorPair ==
    role = "user" /\ pc = "ready" =>
        LET data == shownFor.table
            pairs == { <<data[i].area, data[i].operator>> : i \in DOMAIN data }
        IN  /\ Len(tableData) = Cardinality(pairs)
            /\ \A p \in pairs : \E i \in DOMAIN tableData :
                  /\ tableData[i].area = p[1] /\ tableData[i].operator = p[2]
                  /\ tableData[i].avgDownload =
                         MeanOf(data, OfPair(data, p[1], p[2]), "download_mbps")
                  /\ tableData[i].avgUpload =
                         MeanOf(data, OfPair(data, p[1], p[2]), "upload_mbps")
                  /\ tableData[i].avgScore =
                         MeanOf(data, OfPair(data, p[1], p[2]), "confidence_score")

\* C14: the table starts sorted by score, descending; a click on the header
\* of the current sort column flips the direction, a click on another header
\* selects that column with direction desc, and nothing else changes the sort.
C14_SortTableFlipsOrStartsDescending ==
    /\ currentSort = [column |-> "score", direction |-> "desc"]
    /\ [][IF lastEvent'.kind = "sort"
          THEN currentSort' =
                   IF currentSort.column = lastEvent'.value
                   THEN [column |-> currentSort.column,
                         direction |-> IF currentSort.direction = "asc"
                                       THEN "desc" ELSE "asc"]
                   ELSE [column |-> lastEvent'.value, direction |-> "desc"]
          ELSE currentSort' = currentSort]_vars

\* the area header was clicked twice in a row: the second click flipped the
\* direction from desc to asc
C14_Witness ==
    /\ lastEvent = [kind |-> "sort", value |-> "area"]
    /\ currentSort = [column |-> "area", direction |-> "asc"]

\* the rows have numeric average scores, no two of them equal
DistinctScores(rows) ==
    /\ \A i \in DOMAIN rows : IsNum(rows[i].avgScore)
    /\ \A i, j \in DOMAIN rows :
          i # j => rows[i].avgScore.n # rows[j].avgScore.n

ByScoreDesc == [column |-> "score", direction |-> "desc"]

ByScoreAsc == [column |-> "score", direction |-> "asc"]

\* C15: when the average scores of the rows are pairwise distinct, sorting the
\* table by score descending and then by score ascending gives the rows in
\* exactly the reverse order of the descending sort.
C15_AscendingIsReverseOfDescending ==
    DistinctScores(tableData) =>
        LET descending == applySorting(ByScoreDesc, tableData)
        IN  applySorting(ByScoreAsc, descending) = Reverse(descending)

\* the score header was clicked on a table of three rows of distinct scores
\* sorted by score descending, which is now sorted ascending
C15_Witness ==
    /\ lastEvent = [kind |-> "sort", value |-> "score"]
    /\ currentSort = ByScoreAsc
    /\ Len(tableData) = 3
    /\ DistinctScores(tableData)
    /\ tableData = Reverse(applySorting(ByScoreDesc, tableData))

TotalColumns == {"avgDownload", "avgUpload", "avgScore"}

\* the sum of the cells of a column over the rows at the positions I
RECURSIVE CellSum(_, _, _)
CellSum(rows, I, column) ==
    IF I = {} THEN 0
    ELSE LET i == CHOOSE x \in I : TRUE
         IN  rows[i][column].n + CellSum(rows, I \ {i}, column)

\* C16: each value of the totals row is the arithmetic mean of the cells of
\* its column over all rows of the table, every row counting once whatever
\* the number of records behind it (a column with a non-numeric cell has a
\* non-numeric mean), and the three values are 0.00 when the table has no row.
C16_TotalsAreMeanOfRows ==
    role = "user" /\ pc = "ready" =>
        \A column \in TotalColumns :
            IF tableData = <<>>
            THEN totals[column] = Num(0)
            ELSE IF \A i \in DOMAIN tableData : IsNum(tableData[i][column])
            THEN totals[column] =
                     Num(RoundDiv(CellSum(tableData, DOMAIN tableData, column),
                                  Len(tableData)))
            ELSE ~IsNum(totals[column])

\* two rows, one averaged from two records and one from one record: the
\* download total is the mean of the two rows, not the mean of the three
\* records
C16_Witness ==
    /\ role = "user" /\ pc = "ready"
    /\ Len(shownFor.table) = 3
    /\ Len(tableData) = 2
    /\ \A i \in DOMAIN tableData : IsNum(tableData[i].avgDownload)
    /\ totals.avgDownload = Num(4500)
    /\ totals.avgDownload #
           MeanOf(shownFor.table, DOMAIN shownFor.table, "download_mbps")

\* the file holds the header line and then one line per row of the table, in
\* the order of the table: area and operator in double quotes, the three
\* averages bare, in the order area, operator, download, upload, score
CsvMatchesTable ==
    /\ Len(csv) = Len(tableData) + 1
    /\ csv[1] =
           "Area,Operator,Avg Download Speed,Avg Upload Speed,Final Network Score"
    /\ \A i \in DOMAIN tableData :
          LET row == tableData[i]
              fields == << "\"" \o row.area \o "\"",
                           "\"" \o row.operator \o "\"",
                           Fixed2Text(row.avgDownload),
                           Fixed2Text(row.avgUpload),
                           Fixed2Text(row.avgScore) >>
          IN  csv[i + 1] = fields[1] \o "," \o fields[2] \o "," \o fields[3]
                               \o "," \o fields[4] \o "," \o fields[5]

\* C17 as stated: every export produces the header line followed by one line
\* per row of the table, in the table's order, with the columns area,
\* operator, avgDownload, avgUpload, avgScore, the two names quoted and the
\* three numbers bare.
C17_ExportIsHeaderPlusOneRowPerSummary ==
    lastEvent.kind = "export" => CsvMatchesTable

\* C17: an export of a table with at least one row produces the header line
\* followed by one line per row, in the table's order, with the columns area,
\* operator, avgDownload, avgUpload, avgScore, the two names quoted and the
\* three numbers bare; an export of the empty table produces no file.
C17_ExportOfNonEmptyTable ==
    lastEvent.kind = "export" =>
        IF tableData = <<>> THEN csv = <<>> /\ lastEvent.value = "alert"
        ELSE CsvMatchesTable /\ lastEvent.value = "file"

\* an export of a table of three rows sorted by area, the first line of data
\* being that of Adyar / Airtel
C17_Witness ==
    /\ lastEvent = [kind |-> "export", value |-> "file"]
    /\ currentSort.column = "area"
    /\ Len(tableData) = 3
    /\ csv[2] = "\"Adyar\",\"Airtel\",50.00,15.00,0.30"

\* the place of a string in the order of Array.prototype.sort
SortPlace(x) == CHOOSE i \in DOMAIN NameOrder : NameOrder[i] = x

\* u lists exactly the values of S, each once, in ascending order
SortedDistinctOf(u, S) ==
    /\ Range(u) = S
    /\ \A i, j \in DOMAIN u : i < j => SortPlace(u[i]) < SortPlace(u[j])

RecordFields == {"state", "city", "area", "network_type", "operator"}

\* C18: getUniqueValues(field) is the ascending list of the distinct values of
\* the field over all raw records, whatever the filters select: the state and
\* network options filled from it at load time stay those of the raw records.
\* The options getFilterOptions gives the admin page are such lists too.
C18_UniqueValuesReadTheRawRecords ==
    /\ role = "user" /\ pc = "ready" =>
          /\ \A field \in RecordFields :
                SortedDistinctOf(getUniqueValues(rawData, field),
                                 { rawData[i][field] : i \in DOMAIN rawData })
          /\ dropdown.state.options = Range(getUniqueValues(rawData, "state"))
          /\ dropdown.network.options =
                 Range(getUniqueValues(rawData, "network_type"))
    /\ role = "admin" /\ isLoaded =>
          LET options == getFilterOptions(svcRawData)
              raw(field) == { svcRawData[i][field] : i \in DOMAIN svcRawData }
          IN  /\ SortedDistinctOf(options.states, raw("state"))
              /\ SortedDistinctOf(options.cities, raw("city"))
              /\ SortedDistinctOf(options.operators, raw("operator"))
              /\ SortedDistinctOf(options.networkTypes, raw("network_type"))

\* a state is selected that leaves out a record of another state: the unique
\* states are still those of both records
C18_Witness ==
    /\ role = "user" /\ pc = "ready"
    /\ filters.state # "All"
    /\ Len(filteredData) = 1 /\ Len(rawData) = 2
    /\ Len(getUniqueValues(rawData, "state")) = 2
    /\ { filteredData[i].state : i \in DOMAIN filteredData }
           # dropdown.state.options

\* C19: once the records are loaded, no step (a filter change with the KPI,
\* chart, map and table computations it starts, a sort of the table, an
\* export) changes the raw records, and a sort or an export changes neither
\* the filtered records nor what the other views were computed from: the
\* sort works on the rows of the table only.
C19_RawRecordsNeverChange ==
    [][/\ pc = "ready" => rawData' = rawData
       /\ lastEvent'.kind \in {"sort", "export"} =>
              filteredData' = filteredData /\ shownFor' = shownFor]_vars

\* three records were loaded, a network type was selected that leaves some of
\* them out, and the table was then sorted by area: the raw records are still
\* three
C19_Witness ==
    /\ pc = "ready"
    /\ lastEvent = [kind |-> "sort", value |-> "area"]
    /\ filters.network # "All"
    /\ Len(rawData) = 3
    /\ Len(filteredData) \in 1..2

-----------------------------------------------------------------------------
(* Insights: C20 *)

-----------------------------------------------------------------------------
(* Insights: C21 .. C24, C28, C30 *)

\* C21: a latency of at most 50 ms is "good" and trends up, one above 50 and
\* at most 100 ms is "average" and trends neutral, one above 100 ms is "bad"
\* and trends down.
C21_LatencyStatusAndTrend ==
    currentMetrics # Null /\ IsNum(MetricField(currentMetrics, "avgLatency")) =>
        LET latency_ms == currentMetrics.avgLatency.n
            item == latencyInsight
        IN  /\ latency_ms <= 5000 =>
                  item.status = "good" /\ item.trend = "up"
            /\ latency_ms > 5000 /\ latency_ms <= 10000 =>
                  item.status = "average" /\ item.trend = "neutral"
            /\ latency_ms > 10000 =>
                  item.status = "bad" /\ item.trend = "down"

\* a latency of exactly 100 ms: still "average"
C21_Witness ==
    /\ currentMetrics # Null
    /\ MetricField(currentMetrics, "avgLatency") = Num(10000)
    /\ latencyInsight.status = "average"
    /\ latencyInsight.trend = "neutral"

\* C22: the percentage of the performance item is round(score x 15), and 12
\* exactly when that value is zero or no number; it is never 0.
C22_PercentIsRoundedOrPlaceholder ==
    currentMetrics # Null =>
        LET score == InsightScore(currentMetrics)
            rounded == IF IsNum(score)
                       THEN (score.n * 15 + 50) \div 100 ELSE 0
            falsy == ~IsNum(score) \/ rounded = 0
            percent == performanceInsight.percent
        IN  /\ percent \in Int
            /\ percent # 0
            /\ falsy => percent = 12
            /\ ~falsy => percent = rounded

\* a score of 0.03: 0.45 rounds to 0, and the item shows 12
C22_Witness ==
    /\ currentMetrics # Null
    /\ MetricField(currentMetrics, "avgNetworkScore") = Num(3)
    /\ performanceInsight.percent = 12

\* the number of records the metrics report, under either name; 0 when they
\* report none
ReportedRecords(m) ==
    IF IsNum(MetricField(m, "recordCount")) THEN m.recordCount.n
    ELSE IF "totalRecords" \in DOMAIN m THEN m.totalRecords
    ELSE 0

\* C23: the PB figure of the usage item is the record count of the metrics
\* divided by 40 when the metrics report a record count, and download x 2
\* divided by 40 only when they report none, with one decimal place.
C23_UsageFigureComesFromRecordCount ==
    currentMetrics # Null =>
        LET m == currentMetrics
            reported == ReportedRecords(m)
            download == MetricField(m, "avgDownload")
        IN  IF reported > 0
            THEN usageInsight.pbValue = Num(RoundDiv(reported * 10, 40))
            ELSE IsNum(download) =>
                     usageInsight.pbValue = Num(RoundDiv(download.n * 2, 400))

OtherRole(r) == IF r = "admin" THEN "user" ELSE "admin"

\* C24: for the filters and metrics of the moment, every card the page shows
\* has the trend, the number, the label and the location the other role
\* would give the same item; the two roles differ in the wording alone, and
\* only where the text has an admin and a user phrasing.
C24_RoleChangesOnlyTheWording ==
    rendered.kind = "cards" =>
        \A i \in DOMAIN rendered.cards :
            LET shown == rendered.cards[i]
                other == RenderItem(OtherRole(role), insights[role][i],
                                    currentFilters, currentMetrics)
            IN  /\ shown.trend = other.trend
                /\ shown.insight.number = other.insight.number
                /\ shown.insight.label = other.insight.label
                /\ shown.insight.location = other.insight.location
                /\ shown.insight.wording # other.insight.wording =>
                       /\ shown.insight.wording = role
                       /\ other.insight.wording = OtherRole(role)

\* the admin page with metrics: the first card has the admin phrasing with
\* the percentage 14, the third card the trend "stable"
C24_Witness ==
    /\ role = "admin"
    /\ rendered.kind = "cards"
    /\ currentMetrics # Null
    /\ rendered.cards[1].insight.wording = "admin"
    /\ rendered.cards[1].insight.number = Num(14)
    /\ rendered.cards[3].trend = "stable"

\* C30: renderInsights leaves the loaded templates as they were loaded, and
\* the cards on the page are those of the role, the templates and the
\* filters and metrics of the latest updateContext, whatever contexts came
\* before; with null metrics every card is its template, text and trend.
C30_CardsDependOnLatestContextOnly ==
    /\ insights \in {Null, InsightTemplates}
    /\ rendered.kind = "cards" =>
          /\ rendered =
                 RenderCards(role, InsightTemplates, currentFilters,
                             currentMetrics)
          /\ currentMetrics = Null =>
                 rendered.cards = InsightTemplates[role]

\* the user page after a context with metrics was replaced by one without:
\* the Operator Analysis card shows the template's trend again
C30_Witness ==
    /\ role = "user"
    /\ lastEvent = [kind |-> "context", value |-> "after metrics"]
    /\ currentMetrics = Null
    /\ rendered.kind = "cards"
    /\ rendered.cards[3] = Template("Operator Analysis", "stable")

\* C28: on the user page the metrics of the insights carry no latency, the
\* latency the insights use is the default 50, and the Operator Analysis
\* item, computed or on the page, is neither "stable" nor "unstable".
C28_UserInsightsUseDefaultLatency ==
    (role = "user" /\ currentMetrics # Null) =>
        /\ MetricField(currentMetrics, "avgLatency") = Undef
        /\ MetricField(currentMetrics, "avgLatencyMs") = Undef
        /\ InsightLatency(currentMetrics) = 5000
        /\ operatorAnalysis = "neutral"
        /\ rendered.kind = "cards" => rendered.cards[3].trend = "neutral"

\* fast records of low latency are shown: only the default keeps the item
\* from "stable"
C28_Witness ==
    /\ role = "user"
    /\ rendered.kind = "cards"
    /\ Len(filteredData) > 0
    /\ \A i \in DOMAIN filteredData :
           IsNum(filteredData[i].latency_ms)
               /\ filteredData[i].latency_ms.n < 4000
    /\ InsightDown(currentMetrics) > 15000
    /\ InsightUp(currentMetrics) > 4000
    /\ rendered.cards[3].trend = "neutral"

-----------------------------------------------------------------------------
(* The filter dropdowns and the table: C25 .. C27 *)

\* C25: on the user page, after a change event of a dropdown or a reset has
\* run to its end, each of the four dropdowns shows the entry of
\* dataProcessor.filters of its name.
C25_DropdownsShowTheFilters ==
    (role = "user" /\ pc = "ready"
        /\ lastEvent.kind \in {"state", "city", "area", "network", "reset"}) =>
        \A d \in FilterNames : dropdown[d].value = filters[d]

\* r passes the state, city and area entries of f
InPlace(f, r) ==
    /\ f.state = "All" \/ r.state = f.state
    /\ f.city = "All" \/ r.city = f.city
    /\ f.area = "All" \/ r.area = f.area

\* C26: on the user page, where every selection is one of the options its
\* dropdown offers, the selected city is a city of the selected state, the
\* selected area is an area of the selected city and state, and so some
\* loaded record passes the state, city and area entries of the filters.
C26_SelectionsStayHierarchical ==
    (role = "user" /\ pc = "ready" /\ Len(rawData) > 0) =>
        /\ (filters.state # "All" /\ filters.city # "All") =>
               \E i \in DOMAIN rawData :
                   /\ rawData[i].state = filters.state
                   /\ rawData[i].city = filters.city
        /\ filters.area # "All" =>
               \E i \in DOMAIN rawData :
                   /\ rawData[i].area = filters.area
                   /\ InPlace(filters, rawData[i])
        /\ \E i \in DOMAIN rawData : InPlace(filters, rawData[i])

\* the cell of a row the sort of a column reads
SortCell(column, row) ==
    CASE column = "area" -> row.area
      [] column = "operator" -> row.operator
      [] column = "download" -> row.avgDownload
      [] column = "upload" -> row.avgUpload
      [] column = "score" -> row.avgScore

\* row a may stand above row b under the sort state: names by their place in
\* the collation order, numbers by their value
MayPrecede(sort, a, b) ==
    LET x == SortCell(sort.column, a)
        y == SortCell(sort.column, b)
        before ==
            IF sort.column \in {"area", "operator"}
            THEN LocaleRank(x) <= LocaleRank(y)
            ELSE (IsNum(x) /\ IsNum(y)) => x.n <= y.n
        after ==
            IF sort.column \in {"area", "operator"}
            THEN LocaleRank(x) >= LocaleRank(y)
            ELSE (IsNum(x) /\ IsNum(y)) => x.n >= y.n
    IN  IF sort.direction = "asc" THEN before ELSE after

\* C27: on the user page the table holds the rows of the area-wise
\* aggregation of the filtered records, and every row stands above the rows
\* that the current sort column and direction put after it.
C27_TableIsOrderedByCurrentSort ==
    (role = "user" /\ pc = "ready") =>
        /\ Len(tableData) = Len(getAreaWiseData(filteredData))
        /\ Range(tableData) = Range(getAreaWiseData(filteredData))
        /\ \A i, j \in DOMAIN tableData :
               i < j => MayPrecede(currentSort, tableData[i], tableData[j])

-----------------------------------------------------------------------------
(* Authentication: C29 *)

\* C29: when a logout has run, of the user dashboard or auth.logout, neither
\* userLoggedIn nor adminLoggedIn is 'true' in localStorage, and opening
\* either dashboard next ends on the login page.
C29_LogoutEndsTheSession ==
    lastEvent.kind = "logout" =>
        /\ ~ItemIs(localStorage, "userLoggedIn", "true")
        /\ ~ItemIs(localStorage, "adminLoggedIn", "true")
        /\ \A page \in Pages :
               isDashboard(page) => AuthGuard(page, localStorage) = "login.html"

=============================================================================
